---- MODULE Spec2Model ----
(***************************************************************************)
(* Hybrid lender-detection engine of frictrak-backend                      *)
(* (src/analyser_hybride.py, src/listes_completes_v2.py).                  *)
(*                                                                         *)
(* A text is a sequence of one-character strings; an accented letter is    *)
(* one character, written with its accent mark ("Ea" for E-acute, "Ec"     *)
(* for E-circumflex, "Eg" for E-grave).  Amounts are whole dollars.        *)
(***************************************************************************)
EXTENDS Integers, Sequences, FiniteSets

\* ------------------------------------------------------------------------
\* Characters and the Python string operations the code uses
\* ------------------------------------------------------------------------
LOWERCASE ==
  << "a","b","c","d","e","f","g","h","i","j","k","l","m","n","o","p","q",
     "r","s","t","u","v","w","x","y","z","ea","ec","eg" >>

UPPERCASE ==
  << "A","B","C","D","E","F","G","H","I","J","K","L","M","N","O","P","Q",
     "R","S","T","U","V","W","X","Y","Z","Ea","Ec","Eg" >>

DIGITS == << "0","1","2","3","4","5","6","7","8","9" >>

Range(s) == { s[k] : k \in 1..Len(s) }

\* characters of the regular-expression classes w and s
WORD_CHARS == Range(LOWERCASE) \cup Range(UPPERCASE) \cup Range(DIGITS) \cup {"_"}

SPACE_CHARS == {" "}

IsWord(c) == c \in WORD_CHARS

IsSpace(c) == c \in SPACE_CHARS

ToUpper(c) ==
  IF c \in Range(LOWERCASE)
    THEN UPPERCASE[CHOOSE k \in 1..Len(LOWERCASE) : LOWERCASE[k] = c]
    ELSE c

ToLower(c) ==
  IF c \in Range(UPPERCASE)
    THEN LOWERCASE[CHOOSE k \in 1..Len(UPPERCASE) : UPPERCASE[k] = c]
    ELSE c

\* str.upper(), str.lower()
upper(s) == [k \in 1..Len(s) |-> ToUpper(s[k])]

lower(s) == [k \in 1..Len(s) |-> ToLower(s[k])]

\* sub in s
Contains(sub, s) ==
  \E k \in 0..(Len(s) - Len(sub)) : \A j \in 1..Len(sub) : s[k + j] = sub[j]

\* s.startswith(p)
StartsWith(s, p) == Len(p) <= Len(s) /\ \A j \in 1..Len(p) : s[j] = p[j]

\* s[:n]
Prefix(s, n) == SubSeq(s, 1, IF Len(s) < n THEN Len(s) ELSE n)

\* s.strip()
RECURSIVE lstrip(_)
lstrip(s) == IF s # <<>> /\ IsSpace(Head(s)) THEN lstrip(Tail(s)) ELSE s

RECURSIVE rstrip(_)
rstrip(s) ==
  IF s # <<>> /\ IsSpace(s[Len(s)]) THEN rstrip(SubSeq(s, 1, Len(s) - 1)) ELSE s

strip(s) == rstrip(lstrip(s))

\* set(s.split()): the maximal runs of non-space characters
split(s) ==
  { SubSeq(s, a, CHOOSE b \in a..Len(s) :
                   /\ \A k \in a..b : ~IsSpace(s[k])
                   /\ (b = Len(s) \/ IsSpace(s[b + 1]))) :
      a \in { k \in 1..Len(s) :
                ~IsSpace(s[k]) /\ (k = 1 \/ IsSpace(s[k - 1])) } }

\* re.sub of every character that is of neither class w nor class s by a space
SubPunct(s) ==
  [k \in 1..Len(s) |-> IF IsWord(s[k]) \/ IsSpace(s[k]) THEN s[k] ELSE " "]

\* re.sub of every run of spaces by one space
RECURSIVE SubSpaces(_)
SubSpaces(s) ==
  IF s = <<>> THEN <<>>
  ELSE IF IsSpace(Head(s))
    THEN <<" ">> \o SubSpaces(lstrip(s))
    ELSE <<Head(s)>> \o SubSpaces(Tail(s))

\* re.search of terme between word boundaries in texte (terme is made of
\* word characters)
SearchWord(terme, texte) ==
  \E k \in 0..(Len(texte) - Len(terme)) :
     /\ \A j \in 1..Len(terme) : texte[k + j] = terme[j]
     /\ (k = 0 \/ ~IsWord(texte[k]))
     /\ (k + Len(terme) = Len(texte) \/ ~IsWord(texte[k + Len(terme) + 1]))

\* the element of the list lst a for loop returns at, hits being the
\* positions whose element passes the test of the loop; <<>> when none does
FirstIn(lst, hits) ==
  IF hits = {} THEN <<>>
  ELSE lst[CHOOSE k \in hits : \A j \in hits : k <= j]

\* the positions of lst whose element is contained in texte
HitsIn(lst, texte) == { k \in 1..Len(lst) : Contains(lst[k], texte) }

\* code-point order of the characters, for sorted()
ALPHABET ==
  << " ", "#", "-", "/" >> \o DIGITS \o SubSeq(UPPERCASE, 1, 26) \o <<"_">>
     \o SubSeq(LOWERCASE, 1, 26) \o << "Eg", "Ea", "Ec", "eg", "ea", "ec" >>

Ord(c) == CHOOSE k \in 1..Len(ALPHABET) : ALPHABET[k] = c

RECURSIVE StrLess(_, _)
StrLess(a, b) ==
  IF b = <<>> THEN FALSE
  ELSE IF a = <<>> THEN TRUE
  ELSE IF Head(a) = Head(b) THEN StrLess(Tail(a), Tail(b))
  ELSE Ord(Head(a)) < Ord(Head(b))

\* sorted(list(set(lst)))
RECURSIVE SortedSet(_)
SortedSet(S) ==
  IF S = {} THEN <<>>
  ELSE LET m == CHOOSE x \in S : \A y \in S \ {x} : StrLess(x, y)
       IN  <<m>> \o SortedSet(S \ {m})

\* ------------------------------------------------------------------------
\* The entity registry (listes_completes_v2.py).  The five name lists are
\* excerpts of the source lists, in the source's order.
\* ------------------------------------------------------------------------
PRETEURS_OFFICIELS_OPC ==
  << <<"A","D","V","A","N","C","E"," ","C","R","E","D","I","T">>,  \* ADVANCE CREDIT
     <<"A","D","V","A","N","C","E"," ","C","R","E","D","I","T"," ","T","M">>,  \* ADVANCE CREDIT TM
     <<"F","A","I","R","S","T","O","N","E">>,  \* FAIRSTONE
     <<"M","O","N","E","Y"," ","M","A","R","T">> >>  \* MONEY MART

PRETEURS_COMPLEMENTAIRES ==
  << <<"N","E","O"," ","C","A","P","I","T","A","L">>,  \* NEO CAPITAL
     <<"A","R","G","E","N","T"," ","R","A","P","I","D","E">>,  \* ARGENT RAPIDE
     <<"C","A","S","H"," ","M","O","N","E","Y">> >>  \* CASH MONEY

ASSURANCES_TOUTES ==
  << <<"B","E","N","E","V","A">>,  \* BENEVA
     <<"I","N","T","A","C","T">>,  \* INTACT
     <<"A","I","G">>,  \* AIG
     <<"A","R","C","H">> >>  \* ARCH

SYNDICS_TOUS ==
  << <<"R","A","Y","M","O","N","D"," ","C","H","A","B","O","T">>,  \* RAYMOND CHABOT
     <<"S","Y","N","D","I","C">>,  \* SYNDIC
     <<"S","A","I">>,  \* SAI
     <<"L","I","T">> >>  \* LIT

CASINOS_JEUX ==
  << <<"G","I","G","A","D","A","T">>,  \* GIGADAT
     <<"M","I","S","E","-","O","-","J","E","U">>,  \* MISE-O-JEU
     <<"P","O","K","E","R">> >>  \* POKER

COMMERCES_SERVICES ==
  << <<"T","I","M"," ","H","O","R","T","O","N","S">>,  \* TIM HORTONS
     <<"P","I","Z","Z","A">>,  \* PIZZA
     <<"B","E","L","L">>,  \* BELL
     <<"R","E","V","E","N","U"," ","Q","U","E","B","E","C">> >>  \* REVENU QUEBEC

TERMES_WORD_BOUNDARY ==
  << <<"S","A","I">>,  \* SAI
     <<"L","I","T">>,  \* LIT
     <<"A","R","C","H">>,  \* ARCH
     <<"A","I","G">> >>  \* AIG

PRETEURS_TOUS ==
  SortedSet(Range(PRETEURS_OFFICIELS_OPC \o PRETEURS_COMPLEMENTAIRES))

MONTANTS_SUSPECTS ==
  { 100, 150, 200, 250, 300, 400, 500, 750, 1000, 1500, 2000, 2500, 3000,
    4000, 5000 }

\* ------------------------------------------------------------------------
\* Scoring constants and exclusion lists (analyser_hybride.py)
\* ------------------------------------------------------------------------
KEYWORDS_PRETEUR ==
  << <<"P","R","E","T">>,  \* PRET
     <<"P","R","Ec","T">>,  \* PRET
     <<"E","M","P","R","U","N","T">>,  \* EMPRUNT
     <<"A","V","A","N","C","E">>,  \* AVANCE
     <<"C","R","E","D","I","T">>,  \* CREDIT
     <<"C","R","Ea","D","I","T">>,  \* CREDIT
     <<"F","I","N","A","N","C","E">>,  \* FINANCE
     <<"F","I","N","A","N","C","I","E","R","E">>,  \* FINANCIERE
     <<"F","I","N","A","N","C","I","Eg","R","E">>,  \* FINANCIERE
     <<"F","I","N","A","N","C","E","M","E","N","T">>,  \* FINANCEMENT
     <<"A","R","G","E","N","T">>,  \* ARGENT
     <<"C","A","S","H">>,  \* CASH
     <<"C","O","M","P","T","A","N","T">>,  \* COMPTANT
     <<"R","A","P","I","D","E">>,  \* RAPIDE
     <<"E","X","P","R","E","S","S">>,  \* EXPRESS
     <<"L","O","A","N">>,  \* LOAN
     <<"L","O","A","N","S">>,  \* LOANS
     <<"L","E","N","D","I","N","G">>,  \* LENDING
     <<"L","E","N","D","E","R">>,  \* LENDER
     <<"A","D","V","A","N","C","E">>,  \* ADVANCE
     <<"M","O","N","E","Y">>,  \* MONEY
     <<"F","A","S","T">>,  \* FAST
     <<"Q","U","I","C","K">>,  \* QUICK
     <<"I","N","S","T","A","N","T">>,  \* INSTANT
     <<"P","A","Y","D","A","Y">>,  \* PAYDAY
     <<"P","M","T">>,  \* PMT
     <<"P","A","Y","M","E","N","T">>,  \* PAYMENT
     <<"P","A","I","E","M","E","N","T">>,  \* PAIEMENT
     <<"V","I","R">>,  \* VIR
     <<"V","I","R","E","M","E","N","T">>,  \* VIREMENT
     <<"T","R","A","N","S","F","E","R">> >>  \* TRANSFER

PREFIXES_SUSPECTS ==
  << <<"P","M","T">>,  \* PMT
     <<"P","A","I","E","M","E","N","T">>,  \* PAIEMENT
     <<"P","A","Y","M","E","N","T">>,  \* PAYMENT
     <<"V","I","R">>,  \* VIR
     <<"V","I","R","E","M","E","N","T">>,  \* VIREMENT
     <<"T","R","A","N","S","F","E","R">>,  \* TRANSFER
     <<"R","E","T","R","A","I","T">>,  \* RETRAIT
     <<"W","I","T","H","D","R","A","W","A","L">>,  \* WITHDRAWAL
     <<"D","E","B","I","T">> >>  \* DEBIT

NON_PRETEUR_KEYWORDS ==
  << <<"S","A","L","A","I","R","E">>,  \* SALAIRE
     <<"S","A","L","A","R","Y">>,  \* SALARY
     <<"P","A","I","E">>,  \* PAIE
     <<"P","A","Y","R","O","L","L">>,  \* PAYROLL
     <<"W","A","G","E","S">>,  \* WAGES
     <<"R","E","M","U","N","E","R","A","T","I","O","N">>,  \* REMUNERATION
     <<"R","Ea","M","U","N","Ea","R","A","T","I","O","N">>,  \* REMUNERATION
     <<"R","E","M","B","O","U","R","S","E","M","E","N","T"," ","I","M","P","O","T">>,  \* REMBOURSEMENT IMPOT
     <<"T","A","X"," ","R","E","F","U","N","D">>,  \* TAX REFUND
     <<"I","M","P","O","T">>,  \* IMPOT
     <<"T","A","X"," ","R","E","T","U","R","N">>,  \* TAX RETURN
     <<"R","E","V","E","N","U"," ","Q","U","E","B","E","C">>,  \* REVENU QUEBEC
     <<"R","E","V","E","N","U"," ","C","A","N","A","D","A">>,  \* REVENU CANADA
     <<"V","I","R","E","M","E","N","T"," ","P","E","R","S","O","N","N","E","L">>,  \* VIREMENT PERSONNEL
     <<"T","R","A","N","S","F","E","R"," ","F","R","O","M">>,  \* TRANSFER FROM
     <<"D","E","P","O","T">>,  \* DEPOT
     <<"D","E","P","O","S","I","T">>,  \* DEPOSIT
     <<"T","R","A","N","S","F","E","R"," ","P","E","R","S","O","N","A","L">>,  \* TRANSFER PERSONAL
     <<"P","E","R","S","O","N","N","E","L">>,  \* PERSONNEL
     <<"V","I","R"," ","I","N","T","E","R","A","C"," ","E","N","V","O","Y","E">>,  \* VIR INTERAC ENVOYE
     <<"V","I","R"," ","I","N","T","E","R","A","C"," ","E","F","F","E","C","T","U","E">>,  \* VIR INTERAC EFFECTUE
     <<"V","I","R","E","M","E","N","T"," ","I","N","T","E","R","A","C">>,  \* VIREMENT INTERAC
     <<"V","I","R"," ","I","N","T","E","R","A","C">>,  \* VIR INTERAC
     <<"D","I","V","I","D","E","N","D">>,  \* DIVIDEND
     <<"D","I","V","I","D","E","N","D","E">>,  \* DIVIDENDE
     <<"I","N","T","E","R","E","S","T">>,  \* INTEREST
     <<"I","N","T","E","R","E","T">>,  \* INTERET
     <<"I","N","T","Ea","R","Ec","T">>,  \* INTERET
     <<"P","E","N","S","I","O","N">>,  \* PENSION
     <<"R","E","T","I","R","E","M","E","N","T">>,  \* RETIREMENT
     <<"V","E","N","T","E">>,  \* VENTE
     <<"S","A","L","E">>,  \* SALE
     <<"S","O","L","D">>,  \* SOLD
     <<"R","E","F","U","N","D">> >>  \* REFUND

GENERIC_DESCRIPTIONS ==
  << <<"T","R","A","N","S","F","E","R">>,  \* TRANSFER
     <<"V","I","R","E","M","E","N","T">>,  \* VIREMENT
     <<"P","A","Y","M","E","N","T">>,  \* PAYMENT
     <<"P","A","I","E","M","E","N","T">>,  \* PAIEMENT
     <<"D","E","B","I","T">>,  \* DEBIT
     <<"C","R","E","D","I","T">>,  \* CREDIT
     <<"R","E","T","R","A","I","T">>,  \* RETRAIT
     <<"D","E","P","O","T">> >>  \* DEPOT

EXCLUSIONS_GAMBLING ==
  << <<"G","I","G","A","D","A","T">>,  \* GIGADAT
     <<"L","O","T","O","-","Q","U","E","B","E","C">>,  \* LOTO-QUEBEC
     <<"L","O","T","O","Q","U","E","B","E","C">>,  \* LOTOQUEBEC
     <<"E","S","P","A","C","E","J","E","U","X">>,  \* ESPACEJEUX
     <<"C","A","S","I","N","O">>,  \* CASINO
     <<"M","I","S","E","-","O","-","J","E","U">>,  \* MISE-O-JEU
     <<"P","O","K","E","R">>,  \* POKER
     <<"S","L","O","T","S">>,  \* SLOTS
     <<"B","I","N","G","O">>,  \* BINGO
     <<"P","L","A","Y","N","O","W">>,  \* PLAYNOW
     <<"B","E","T">>,  \* BET
     <<"G","A","M","I","N","G">> >>  \* GAMING

EXCLUSIONS_SERVICES_PAIEMENT ==
  << <<"L","O","O","N","I","O">>,  \* LOONIO
     <<"P","A","Y","P","E","R">>,  \* PAYPER
     <<"K","O","H","O">>,  \* KOHO
     <<"W","E","A","L","T","H","S","I","M","P","L","E">>,  \* WEALTHSIMPLE
     <<"Q","U","E","S","T","R","A","D","E">>,  \* QUESTRADE
     <<"T","A","N","G","E","R","I","N","E">>,  \* TANGERINE
     <<"E","Q"," ","B","A","N","K">> >>  \* EQ BANK

EXCLUSIONS_AUTRES ==
  << <<"I","G","A">>,  \* IGA
     <<"M","E","T","R","O">>,  \* METRO
     <<"W","A","L","M","A","R","T">>,  \* WALMART
     <<"C","O","S","T","C","O">>,  \* COSTCO
     <<"D","O","L","L","A","R","A","M","A">>,  \* DOLLARAMA
     <<"C","A","N","A","D","I","A","N"," ","T","I","R","E">>,  \* CANADIAN TIRE
     <<"S","A","A","Q">>,  \* SAAQ
     <<"H","Y","D","R","O">>,  \* HYDRO
     <<"V","I","D","E","O","T","R","O","N">>,  \* VIDEOTRON
     <<"B","E","L","L">>,  \* BELL
     <<"R","O","G","E","R","S">>,  \* ROGERS
     <<"T","I","M"," ","H","O","R","T","O","N","S">>,  \* TIM HORTONS
     <<"M","C","D","O","N","A","L","D">>,  \* MCDONALD
     <<"J","E","A","N"," ","C","O","U","T","U">> >>  \* JEAN COUTU

EXCLUSIONS_PATTERNS ==
  << <<"B","I","L","L"," ","P","A","Y","M","E","N","T">>,  \* BILL PAYMENT
     <<"T","R","A","N","S","F","E","R","S","B","I","L","L">>,  \* TRANSFERSBILL
     <<"T","R","A","N","S","F","E","R","S","T","R","A","N","S","F","E","R">>,  \* TRANSFERSTRANSFER
     <<"T","R","A","N","S","F","E","R","S","I","N","T","E","R","A","C"," ","E","-","T","R","A","N","S","F","E","R"," ","T","O">>,  \* TRANSFERSINTERAC E-TRANSFER TO
     <<"E","-","T","R","A","N","S","F","E","R"," ","T","O">>,  \* E-TRANSFER TO
     <<"I","N","T","E","R","A","C"," ","E","-","T","R","A","N","S","F","E","R"," ","T","O">>,  \* INTERAC E-TRANSFER TO
     <<"W","I","T","H","D","R","A","W","A","L"," ","A","T"," ","T","H","E"," ","C","O","U","N","T","E","R">>,  \* WITHDRAWAL AT THE COUNTER
     <<"W","I","T","H","D","R","A","W","A","L"," ","O","N"," ","A","T","M">>,  \* WITHDRAWAL ON ATM
     <<"C","H","E","Q","U","E","S","/","C","A","S","H","W","I","T","H","D","R","A","W","A","L">>,  \* CHEQUES/CASHWITHDRAWAL
     <<"T","R","A","N","S","F","E","R","S","W","I","T","H","D","R","A","W","A","L">>,  \* TRANSFERSWITHDRAWAL
     <<"D","E","P","O","S","I","T"," ","O","N"," ","A","T","M">>,  \* DEPOSIT ON ATM
     <<"M","O","B","I","L","E"," ","D","E","P","O","S","I","T">>,  \* MOBILE DEPOSIT
     <<"M","A","S","T","E","R","C","A","R","D">>,  \* MASTERCARD
     <<"V","I","S","A">>,  \* VISA
     <<"C","A","R","T","E"," ","D","E"," ","C","R","Ea","D","I","T">>,  \* CARTE DE CREDIT
     <<"C","R","E","D","I","T"," ","C","A","R","D">>,  \* CREDIT CARD
     <<"D","E","S","J","A","R","D","I","N","S"," ","O","D","Y","S","S","Ea","E">>,  \* DESJARDINS ODYSSEE
     <<"B","M","O">>,  \* BMO
     <<"R","B","C">>,  \* RBC
     <<"C","I","B","C">>,  \* CIBC
     <<"S","C","O","T","I","A">>,  \* SCOTIA
     <<"A","3","0"," ","E","X","P","R","E","S","S">>,  \* A30 EXPRESS
     <<"A","2","5"," ","E","X","P","R","E","S","S">>,  \* A25 EXPRESS
     <<"R","Q"," ","P","A","Y","M","E","N","T">>,  \* RQ PAYMENT
     <<"M","U","N","I","C","I","P","A","L">>,  \* MUNICIPAL
     <<"S","C","H","O","O","L"," ","T","A","X","E","S">> >>  \* SCHOOL TAXES

\* ------------------------------------------------------------------------
\* Entity matcher (listes_completes_v2.py)
\* ------------------------------------------------------------------------
est_preteur(description) ==
  LET desc_upper == upper(description)
      nom == FirstIn(PRETEURS_TOUS, HitsIn(PRETEURS_TOUS, desc_upper))
  IN  [est |-> nom # <<>>, nom |-> nom]

match_avec_word_boundary(terme, texte) ==
  IF terme \in Range(TERMES_WORD_BOUNDARY)
    THEN SearchWord(terme, texte)
    ELSE Contains(terme, texte)

est_assurance(description) ==
  LET desc_upper == upper(description)
      nom == FirstIn(ASSURANCES_TOUTES,
                     { k \in 1..Len(ASSURANCES_TOUTES) :
                         match_avec_word_boundary(ASSURANCES_TOUTES[k],
                                                  desc_upper) })
  IN  [est |-> nom # <<>>, nom |-> nom]

est_syndic(description) ==
  LET desc_upper == upper(description)
      nom == FirstIn(SYNDICS_TOUS,
                     { k \in 1..Len(SYNDICS_TOUS) :
                         match_avec_word_boundary(SYNDICS_TOUS[k],
                                                  desc_upper) })
  IN  [est |-> nom # <<>>, nom |-> nom]

est_casino(description) ==
  LET desc_upper == upper(description)
      nom == FirstIn(CASINOS_JEUX, HitsIn(CASINOS_JEUX, desc_upper))
  IN  [est |-> nom # <<>>, nom |-> nom]

\* the same without the insurer lists
est_a_exclure_sans_assurance(description) ==
  LET syn == est_syndic(description)
      cas == est_casino(description)
      com == FirstIn(COMMERCES_SERVICES,
                     HitsIn(COMMERCES_SERVICES, upper(description)))
  IN  IF syn.est THEN [doit_exclure |-> TRUE, raison |-> "syndic", nom |-> syn.nom]
      ELSE IF cas.est THEN [doit_exclure |-> TRUE, raison |-> "casino", nom |-> cas.nom]
      ELSE IF com # <<>> THEN [doit_exclure |-> TRUE, raison |-> "commerce", nom |-> com]
      ELSE [doit_exclure |-> FALSE, raison |-> "", nom |-> <<>>]

\* the same with the casino list consulted first
est_a_exclure_casino_d_abord(description) ==
  LET ass == est_assurance(description)
      syn == est_syndic(description)
      cas == est_casino(description)
      com == FirstIn(COMMERCES_SERVICES,
                     HitsIn(COMMERCES_SERVICES, upper(description)))
  IN  IF cas.est THEN [doit_exclure |-> TRUE, raison |-> "casino", nom |-> cas.nom]
      ELSE IF ass.est THEN [doit_exclure |-> TRUE, raison |-> "assurance", nom |-> ass.nom]
      ELSE IF syn.est THEN [doit_exclure |-> TRUE, raison |-> "syndic", nom |-> syn.nom]
      ELSE IF com # <<>> THEN [doit_exclure |-> TRUE, raison |-> "commerce", nom |-> com]
      ELSE [doit_exclure |-> FALSE, raison |-> "", nom |-> <<>>]

est_a_exclure(description) ==
  LET ass == est_assurance(description)
      syn == est_syndic(description)
      cas == est_casino(description)
      com == FirstIn(COMMERCES_SERVICES,
                     HitsIn(COMMERCES_SERVICES, upper(description)))
  IN  IF ass.est THEN [doit_exclure |-> TRUE, raison |-> "assurance", nom |-> ass.nom]
      ELSE IF syn.est THEN [doit_exclure |-> TRUE, raison |-> "syndic", nom |-> syn.nom]
      ELSE IF cas.est THEN [doit_exclure |-> TRUE, raison |-> "casino", nom |-> cas.nom]
      ELSE IF com # <<>> THEN [doit_exclure |-> TRUE, raison |-> "commerce", nom |-> com]
      ELSE [doit_exclure |-> FALSE, raison |-> "", nom |-> <<>>]

\* the same with the exclusion lists consulted before the lender lists
categoriser_transaction_exclusion_d_abord(description) ==
  LET pret == est_preteur(description)
      excl == est_a_exclure(description)
  IN  IF excl.doit_exclure
        THEN [type |-> excl.raison, nom |-> excl.nom, doit_exclure |-> TRUE]
      ELSE IF pret.est
        THEN [type |-> "preteur", nom |-> pret.nom, doit_exclure |-> FALSE]
      ELSE [type |-> "inconnu", nom |-> <<>>, doit_exclure |-> FALSE]

categoriser_transaction(description) ==
  LET pret == est_preteur(description)
      excl == est_a_exclure(description)
  IN  IF pret.est
        THEN [type |-> "preteur", nom |-> pret.nom, doit_exclure |-> FALSE]
      ELSE IF excl.doit_exclure
        THEN [type |-> excl.raison, nom |-> excl.nom, doit_exclure |-> TRUE]
      ELSE [type |-> "inconnu", nom |-> <<>>, doit_exclure |-> FALSE]

\* ------------------------------------------------------------------------
\* Exclusion filter (analyser_hybride.py)
\* ------------------------------------------------------------------------
CATEGORIES_GAMBLING ==
  << <<"g","a","m","b","l","i","n","g">>, <<"c","a","s","i","n","o">> >>

CATEGORIES_COURANTES ==
  << <<"g","r","o","c","e","r","i","e","s">>, <<"g","a","s">>,
     <<"f","u","e","l">>, <<"u","t","i","l","i","t","i","e","s">>,
     <<"b","i","l","l","s">>,
     <<"i","n","s","u","r","a","n","c","e","/","c","a","r">>,
     <<"i","n","s","u","r","a","n","c","e","/","l","i","f","e">> >>

CATEGORIE_ATM == <<"a","t","m">>

CATEGORIE_TRANSFER == <<"t","r","a","n","s","f","e","r">>

lender_keywords ==
  << <<"C","R","E","D","I","T">>, <<"L","O","A","N">>, <<"P","R","E","T">>,
     <<"P","R","Ec","T">>, <<"F","I","N","A","N","C","E">>,
     <<"M","O","N","E","Y">>, <<"C","A","S","H">>,
     <<"S","E","C","O","U","R","S">> >>

toutes_exclusions ==
  EXCLUSIONS_GAMBLING \o EXCLUSIONS_SERVICES_PAIEMENT \o EXCLUSIONS_AUTRES
    \o EXCLUSIONS_PATTERNS

AnyIn(lst, texte) == HitsIn(lst, texte) # {}

est_exclus(nom, categorie) ==
  LET nom_upper == upper(nom)
      categorie_lower == lower(categorie)
  IN  \/ /\ categorie # <<>>
         /\ \/ AnyIn(CATEGORIES_GAMBLING, categorie_lower)
            \/ AnyIn(CATEGORIES_COURANTES, categorie_lower)
            \/ Contains(CATEGORIE_ATM, categorie_lower)
            \/ /\ Contains(CATEGORIE_TRANSFER, categorie_lower)
               /\ ~est_preteur(nom).est
               /\ ~AnyIn(lender_keywords, nom_upper)
      \/ AnyIn(EXCLUSIONS_PATTERNS, nom_upper)
      \/ AnyIn(toutes_exclusions, nom_upper)
      \/ Len(strip(nom)) < 4

\* ------------------------------------------------------------------------
\* Heuristic scorer (analyser_hybride.py)
\* ------------------------------------------------------------------------
Abs(n) == IF n < 0 THEN -n ELSE n

Min(a, b) == IF a < b THEN a ELSE b

Max(a, b) == IF a < b THEN b ELSE a

\* the same with the threshold excluded
Similar_strict(desc_words, past_words) ==
  LET intersection == Cardinality(desc_words \cap past_words)
      union == Cardinality(desc_words \cup past_words)
  IN  union > 0 /\ 10 * intersection > 8 * union

\* similarity = intersection / union >= 0.8, on the two word sets
Similar(desc_words, past_words) ==
  LET intersection == Cardinality(desc_words \cap past_words)
      union == Cardinality(desc_words \cup past_words)
  IN  union > 0 /\ 10 * intersection >= 8 * union

\* the same counting the similar entries at the head of the history only
count_similar_transactions_debut(description, transaction_history) ==
  Cardinality({ k \in 1..Len(transaction_history) :
    \A j \in 1..k :
      Similar(split(upper(description)),
              split(upper(transaction_history[j].description))) })

RECURSIVE count_similar_transactions(_, _)
count_similar_transactions(description, transaction_history) ==
  LET desc_words == split(upper(description))
  IN  IF transaction_history = <<>> \/ desc_words = {} THEN 0
      ELSE LET past_words == split(upper(Head(transaction_history).description))
               rest == count_similar_transactions(description,
                                                  Tail(transaction_history))
           IN  IF past_words # {} /\ Similar(desc_words, past_words)
                 THEN rest + 1
                 ELSE rest

normalize_description(description) ==
  IF description = <<>> THEN <<>>
  ELSE strip(SubSpaces(SubPunct(upper(description))))

\* one rule of the scorer: its points and its reason when it applies
Rule(applies, points, reason) ==
  IF applies THEN [points |-> points, reasons |-> <<reason>>]
             ELSE [points |-> 0, reasons |-> <<>>]

\* the same with the bonuses only
RECURSIVE SumPoints_sans_penalites(_)
SumPoints_sans_penalites(rules) ==
  IF rules = <<>> THEN 0
  ELSE Max(0, Head(rules).points) + SumPoints_sans_penalites(Tail(rules))

RECURSIVE SumPoints(_)
SumPoints(rules) ==
  IF rules = <<>> THEN 0 ELSE Head(rules).points + SumPoints(Tail(rules))

RECURSIVE AllReasons(_)
AllReasons(rules) ==
  IF rules = <<>> THEN <<>>
  ELSE Head(rules).reasons \o AllReasons(Tail(rules))

\* the same without the upper limit
Clamp_sans_plafond(score) == Max(0, score)

\* final_score = max(0, min(100, score))
Clamp(score) == Max(0, Min(100, score))

Confidence(final_score) ==
  IF final_score >= 80 THEN "TRES ELEVEE"
  ELSE IF final_score >= 60 THEN "ELEVEE"
  ELSE IF final_score >= 40 THEN "MOYENNE"
  ELSE IF final_score >= 20 THEN "FAIBLE"
  ELSE "TRES FAIBLE"

Action(final_score) ==
  IF final_score >= 80 THEN "CONFIRMER - Tres probable preteur"
  ELSE IF final_score >= 60 THEN "PROBABLE - Verifier manuellement"
  ELSE IF final_score >= 40 THEN "POSSIBLE - Investigation requise"
  ELSE IF final_score >= 20 THEN "IMPROBABLE - Peut ignorer"
  ELSE "NON-PRETEUR - Ignorer"

\* "EXCLURE - {type.capitalize()} identifie"
ActionExclure(type) ==
  IF type = "assurance" THEN "EXCLURE - Assurance identifie"
  ELSE IF type = "syndic" THEN "EXCLURE - Syndic identifie"
  ELSE IF type = "casino" THEN "EXCLURE - Casino identifie"
  ELSE "EXCLURE - Commerce identifie"

\* ETAPE 3 and ETAPE 4: the rules and penalties, in the order of the code
ReglesIntelligentes(description, desc_upper, amount, similar_count) ==
  LET keywords_found ==
        SelectSeq(KEYWORDS_PRETEUR, LAMBDA kw : Contains(kw, desc_upper))
      prefix ==
        FirstIn(PREFIXES_SUSPECTS,
                { k \in 1..Len(PREFIXES_SUSPECTS) :
                    StartsWith(desc_upper, PREFIXES_SUSPECTS[k]) })
      has_prefix ==
        \/ StartsWith(desc_upper, <<"P","M","T">>)
        \/ StartsWith(desc_upper, <<"V","I","R">>)
      has_keyword ==
        AnyIn(<< <<"C","R","E","D","I","T">>, <<"L","O","A","N">>,
                 <<"F","I","N","A","N","C","E">>, <<"P","R","E","T">> >>,
              desc_upper)
      has_amount == 50 <= amount /\ amount <= 5000
  IN  << Rule(keywords_found # <<>>, 30,
              <<"Mots-cles suspects", Prefix(keywords_found, 3)>>),
         Rule(amount \in MONTANTS_SUSPECTS, 15,
              <<"Montant rond suspect", <<amount>> >>),
         IF similar_count >= 5
           THEN Rule(TRUE, 35,
                     <<"Transactions tres repetitives", <<similar_count>> >>)
         ELSE IF similar_count >= 3
           THEN Rule(TRUE, 25,
                     <<"Transactions repetitives", <<similar_count>> >>)
         ELSE Rule(similar_count >= 2, 10,
                   <<"Quelques repetitions", <<similar_count>> >>),
         Rule(prefix # <<>>, 10, <<"Prefixe bancaire suspect", <<prefix>> >>),
         Rule(50 <= amount /\ amount <= 5000, 10,
              <<"Montant typique payday loan (50$-5000$)", <<>> >>),
         Rule(/\ Contains(<<"C","R","E","D","I","T">>, desc_upper)
              /\ amount < 2000 /\ amount > 0, 20,
              <<"Combinaison: CREDIT + petit montant", <<>> >>),
         Rule(/\ Contains(<<"F","I","N","A","N","C","E">>, desc_upper)
              /\ amount \in MONTANTS_SUSPECTS, 20,
              <<"Combinaison: FINANCE + montant rond", <<>> >>),
         Rule(/\ Contains(<<"L","O","A","N">>, desc_upper)
              /\ similar_count >= 2, 20,
              <<"Combinaison: LOAN + repetitions", <<>> >>),
         Rule(has_prefix /\ has_keyword /\ has_amount, 25,
              <<"Triple combinaison suspecte (prefixe + mot-cle + montant)",
                <<>> >>),
         IF amount > 20000
           THEN Rule(TRUE, -40, <<"Montant extreme (>20K$)", <<>> >>)
           ELSE Rule(amount > 10000, -20,
                     <<"Montant tres eleve (>10K$)", <<>> >>),
         Rule(Len(strip(description)) < 10, -15,
              <<"Description trop courte", <<>> >>),
         Rule(strip(upper(description)) \in Range(GENERIC_DESCRIPTIONS), -20,
              <<"Description trop generique", <<>> >>),
         Rule(similar_count > 20, -10,
              <<"Frequence excessive (>20 transactions)", <<>> >>) >>

\* the returns of calculate_lender_score_hybrid, in the order of the code:
\* result is the value of categoriser_transaction, non_kw the first
\* non-lender keyword found, rules the outcome of the rules and penalties
Etapes(result, non_kw, rules) ==
  LET source_liste ==
        IF result.nom \in Range(PRETEURS_COMPLEMENTAIRES)
          THEN "LISTE_COMPLEMENTAIRE" ELSE "LISTE_OPC"
      reasons == AllReasons(rules)
      final_score == Clamp(SumPoints(rules))
  IN  IF result.type = "preteur"
        THEN [score |-> IF source_liste = "LISTE_OPC" THEN 95 ELSE 90,
              confidence |-> "TRES ELEVEE",
              source |-> source_liste,
              reasons |-> << <<"Preteur officiel identifie", <<result.nom>> >> >>,
              preteur_nom |-> result.nom,
              action |-> "CONFIRMER - Preteur officiel du gouvernement du Quebec"]
      ELSE IF result.doit_exclure
        THEN [score |-> 0,
              confidence |-> "N/A",
              source |-> "EXCLUSION",
              reasons |-> << <<"Exclusion automatique",
                               <<result.type, result.nom>> >> >>,
              preteur_nom |-> <<>>,
              action |-> ActionExclure(result.type)]
      ELSE IF non_kw # <<>>
        THEN [score |-> 0,
              confidence |-> "TRES FAIBLE",
              source |-> "AUCUNE",
              reasons |-> << <<"Non-preteur detecte", <<non_kw>> >> >>,
              preteur_nom |-> <<>>,
              action |-> "NON-PRETEUR - Ignorer"]
      ELSE [score |-> final_score,
            confidence |-> Confidence(final_score),
            source |-> IF final_score > 0 /\ reasons # <<>>
                         THEN "REGLES" ELSE "AUCUNE",
            reasons |-> reasons,
            preteur_nom |-> <<>>,
            action |-> Action(final_score)]

\* amount = abs(amount) if amount else 0
AmountOf(amount_in) == IF amount_in # 0 THEN Abs(amount_in) ELSE 0

\* the same with no keyword ever found
NonPreteur_aucun(desc_upper) == <<>>

\* ETAPE 2: the first keyword of NON_PRETEUR_KEYWORDS in desc_upper
NonPreteur(desc_upper) ==
  FirstIn(NON_PRETEUR_KEYWORDS, HitsIn(NON_PRETEUR_KEYWORDS, desc_upper))

calculate_lender_score_hybrid(description, amount_in, transaction_history) ==
  Etapes(categoriser_transaction(description),
         NonPreteur(normalize_description(description)),
         ReglesIntelligentes(description, normalize_description(description),
           AmountOf(amount_in),
           count_similar_transactions(description, transaction_history)))

\* ------------------------------------------------------------------------
\* Knock-out evaluator and risk score (analyser_hybride.py).  A quotient of
\* the code's float arithmetic is kept exact as numerator and denominator.
\* ------------------------------------------------------------------------
Ratio(num, den) == [num |-> num, den |-> den]

\* q > n, q < n and q = n for a quotient q with a positive denominator
Above(q, n) == q.num > n * q.den

\* the same with no quotient ever below n
Below_jamais(q, n) == FALSE

Below(q, n) == q.num < n * q.den

\* verifier_knock_outs returning at the first knock-out found
verifier_knock_outs_premier(d) ==
  LET revenus_mensuels == d.revenus_mensuels
      ratio_dr == Ratio(d.total_paiements_prets * 100, revenus_mensuels)
      knock_outs ==
        IF revenus_mensuels > 0 /\ Above(ratio_dr, 200)
          THEN << [type |-> "RATIO_DR_CRITIQUE", valeur |-> ratio_dr, seuil |-> 200] >>
        ELSE IF revenus_mensuels > 0 /\ Above(ratio_dr, 100)
          THEN << [type |-> "RATIO_DR_SEVERE", valeur |-> ratio_dr, seuil |-> 100] >>
        ELSE IF revenus_mensuels > 0 /\ revenus_mensuels < 2 * d.total_paiements_prets
          THEN << [type |-> "CAPACITE_NEGATIVE",
                   valeur |-> Ratio(revenus_mensuels * 5 - d.total_paiements_prets * 10, 10),
                   seuil |-> 0] >>
        ELSE IF d.nb_preteurs_confirmes > 5
          THEN << [type |-> "TROP_PRETEURS",
                   valeur |-> Ratio(d.nb_preteurs_confirmes, 1), seuil |-> 5] >>
        ELSE IF d.nsf_30_jours > 2
          THEN << [type |-> "NSF_REPETES",
                   valeur |-> Ratio(d.nsf_30_jours, 1), seuil |-> 2] >>
        ELSE IF d.overdraft_90_jours > 5
          THEN << [type |-> "OVERDRAFT_CHRONIQUE",
                   valeur |-> Ratio(d.overdraft_90_jours, 1), seuil |-> 5] >>
        ELSE <<>>
  IN  [has_knock_outs |-> Len(knock_outs) > 0,
       knock_outs |-> knock_outs,
       nb_knock_outs |-> Len(knock_outs)]

verifier_knock_outs(d) ==
  LET revenus_mensuels == d.revenus_mensuels
      paiements_prets == d.total_paiements_prets
      ratio_dr == Ratio(paiements_prets * 100, revenus_mensuels)
      capacite_residuelle == Ratio(revenus_mensuels * 5 - paiements_prets * 10, 10)
      ko1 == IF revenus_mensuels > 0 /\ Above(ratio_dr, 200)
               THEN << [type |-> "RATIO_DR_CRITIQUE", valeur |-> ratio_dr, seuil |-> 200] >>
             ELSE IF revenus_mensuels > 0 /\ Above(ratio_dr, 100)
               THEN << [type |-> "RATIO_DR_SEVERE", valeur |-> ratio_dr, seuil |-> 100] >>
             ELSE <<>>
      ko2 == IF revenus_mensuels > 0 /\ Below(capacite_residuelle, 0)
               THEN << [type |-> "CAPACITE_NEGATIVE", valeur |-> capacite_residuelle, seuil |-> 0] >>
             ELSE <<>>
      ko3 == IF d.nb_preteurs_confirmes > 5
               THEN << [type |-> "TROP_PRETEURS",
                        valeur |-> Ratio(d.nb_preteurs_confirmes, 1), seuil |-> 5] >>
             ELSE <<>>
      ko4 == IF d.nsf_30_jours > 2
               THEN << [type |-> "NSF_REPETES",
                        valeur |-> Ratio(d.nsf_30_jours, 1), seuil |-> 2] >>
             ELSE <<>>
      ko5 == IF d.overdraft_90_jours > 5
               THEN << [type |-> "OVERDRAFT_CHRONIQUE",
                        valeur |-> Ratio(d.overdraft_90_jours, 1), seuil |-> 5] >>
             ELSE <<>>
      knock_outs == ko1 \o ko2 \o ko3 \o ko4 \o ko5
  IN  [has_knock_outs |-> Len(knock_outs) > 0,
       knock_outs |-> knock_outs,
       nb_knock_outs |-> Len(knock_outs)]

\* the same with the limits of the tiers excluded
NiveauRisque_strict(score) ==
  IF score > 80 THEN "FAIBLE"
  ELSE IF score > 60 THEN "MODERE"
  ELSE IF score > 40 THEN "ELEVE"
  ELSE "TRES ELEVE"

\* niveau_risque, from the final score
NiveauRisque(score) ==
  IF score >= 80 THEN "FAIBLE"
  ELSE IF score >= 60 THEN "MODERE"
  ELSE IF score >= 40 THEN "ELEVE"
  ELSE "TRES ELEVE"

\* the five penalties of calculer_score_avance, in the order of the code
Penalites(d) ==
  LET revenus == d.revenus_mensuels
      ratio_dr == Ratio(d.total_paiements_prets * 100, revenus)
      budget == d.budget_disponible
      nb_preteurs == d.nb_preteurs_confirmes
      nsf == d.nsf_30_jours
      overdraft == d.overdraft_90_jours
  IN  << IF revenus > 0 /\ Above(ratio_dr, 75)
           THEN Rule(TRUE, 20, "Ratio D/R eleve: -20 pts")
         ELSE IF revenus > 0 /\ Above(ratio_dr, 50)
           THEN Rule(TRUE, 15, "Ratio D/R limite: -15 pts")
         ELSE IF revenus > 0 /\ Above(ratio_dr, 30)
           THEN Rule(TRUE, 10, "Ratio D/R modere: -10 pts")
         ELSE Rule(revenus > 0 /\ Above(ratio_dr, 15), 5,
                   "Ratio D/R acceptable: -5 pts"),
         IF Below(budget, 0) THEN Rule(TRUE, 20, "Budget negatif: -20 pts")
         ELSE IF Below(budget, 500)
           THEN Rule(TRUE, 15, "Budget tres serre: -15 pts")
         ELSE IF Below(budget, 1000)
           THEN Rule(TRUE, 10, "Budget serre: -10 pts")
         ELSE Rule(Below(budget, 1500), 5, "Budget limite: -5 pts"),
         IF nb_preteurs = 5 THEN Rule(TRUE, 20, "5 preteurs actifs: -20 pts")
         ELSE IF nb_preteurs = 4
           THEN Rule(TRUE, 15, "4 preteurs actifs: -15 pts")
         ELSE IF nb_preteurs = 3
           THEN Rule(TRUE, 10, "3 preteurs actifs: -10 pts")
         ELSE IF nb_preteurs = 2
           THEN Rule(TRUE, 5, "2 preteurs actifs: -5 pts")
         ELSE Rule(nb_preteurs = 1, 2, "1 preteur actif: -2 pts"),
         IF nsf = 2 THEN Rule(TRUE, 15, "2 NSF en 30j: -15 pts")
         ELSE Rule(nsf = 1, 10, "1 NSF en 30j: -10 pts"),
         IF overdraft = 5 THEN Rule(TRUE, 12, "5 decouverts en 90j: -12 pts")
         ELSE IF overdraft >= 3
           THEN Rule(TRUE, 8, "decouverts en 90j: -8 pts")
         ELSE Rule(overdraft >= 1, 5, "decouvert(s) en 90j: -5 pts") >>

\* calculer_score_avance without the knock-out gate
calculer_score_avance_sans_gate(d, ko_result) ==
  LET penalites == Penalites(d)
      score == Max(0, 100 - SumPoints(penalites))
  IN  [score |-> score,
       niveau_risque |-> NiveauRisque(score),
       penalites |-> AllReasons(penalites),
       knock_outs |-> ko_result.knock_outs]

calculer_score_avance(d, ko_result) ==
  LET penalites == Penalites(d)
      score == Max(0, 100 - SumPoints(penalites))
  IN  IF ko_result.has_knock_outs
        THEN [score |-> 0,
              niveau_risque |-> "CRITIQUE",
              penalites |-> <<>>,
              knock_outs |-> ko_result.knock_outs]
        ELSE [score |-> score,
              niveau_risque |-> NiveauRisque(score),
              penalites |-> AllReasons(penalites),
              knock_outs |-> <<>>]

\* the same with the limits of the score ranges excluded
ChanceBase_strict(score_global) ==
  IF score_global > 80 THEN 95
  ELSE IF score_global > 70 THEN 85
  ELSE IF score_global > 60 THEN 75
  ELSE IF score_global > 50 THEN 60
  ELSE IF score_global > 40 THEN 40
  ELSE IF score_global > 30 THEN 20
  ELSE 5

\* chance_base of calculer_probabilite_realiste, from the score
ChanceBase(score_global) ==
  IF score_global >= 80 THEN 95
  ELSE IF score_global >= 70 THEN 85
  ELSE IF score_global >= 60 THEN 75
  ELSE IF score_global >= 50 THEN 60
  ELSE IF score_global >= 40 THEN 40
  ELSE IF score_global >= 30 THEN 20
  ELSE 5

\* q > n / 10, for a quotient q with a positive denominator
AboveTenths(q, n) == 10 * q.num > n * q.den

\* ratio_dette and capacite_max are quotients
calculer_probabilite_realiste(score_global, ratio_dette, nb_preteurs, montant_demande, capacite_max) ==
  LET ratio_montant ==
        IF capacite_max.num > 0
          THEN Ratio(montant_demande * capacite_max.den, capacite_max.num)
          ELSE Ratio(1, 1)
      penalite_dette ==
        IF AboveTenths(ratio_dette, 8) THEN 40
        ELSE IF AboveTenths(ratio_dette, 6) THEN 30
        ELSE IF AboveTenths(ratio_dette, 5) THEN 20
        ELSE IF AboveTenths(ratio_dette, 4) THEN 10
        ELSE 0
      penalite_preteurs ==
        IF nb_preteurs >= 8 THEN 30
        ELSE IF nb_preteurs >= 6 THEN 20
        ELSE IF nb_preteurs >= 4 THEN 10
        ELSE 0
      penalite_montant ==
        IF AboveTenths(ratio_montant, 8) THEN 15
        ELSE IF AboveTenths(ratio_montant, 6) THEN 10
        ELSE IF AboveTenths(ratio_montant, 4) THEN 5
        ELSE 0
  IN  Max(0, Min(100, ChanceBase(score_global) - penalite_dette
                        - penalite_preteurs - penalite_montant))

\* ------------------------------------------------------------------------
\* Classification and aggregation (detect_lenders_hybrid).  A bucket is a
\* Python dict: the sequence of its (key, entry) pairs in insertion order.
\* ------------------------------------------------------------------------
HasKey(bucket, key) == \E k \in 1..Len(bucket) : bucket[k].key = key

IndexOf(bucket, key) == CHOOSE k \in 1..Len(bucket) : bucket[k].key = key

\* list(bucket.values())
Values(bucket) == [k \in 1..Len(bucket) |-> bucket[k].entry]

RECURSIVE SumTotalPaye(_)
SumTotalPaye(entries) ==
  IF entries = <<>> THEN 0
  ELSE Head(entries).total_paye + SumTotalPaye(Tail(entries))

\* the same without the amount added to total_paye
AddTransaction_sans_total(bucket, key, entry, record) ==
  LET b == IF HasKey(bucket, key) THEN bucket
           ELSE Append(bucket, [key |-> key, entry |-> entry])
      k == IndexOf(b, key)
  IN  [b EXCEPT ![k].entry.transactions = Append(@, record)]

\* if key not in bucket: bucket[key] = entry; then the transaction is
\* appended to bucket[key] and its amount added to total_paye
AddTransaction(bucket, key, entry, record) ==
  LET b == IF HasKey(bucket, key) THEN bucket
           ELSE Append(bucket, [key |-> key, entry |-> entry])
      k == IndexOf(b, key)
  IN  [b EXCEPT ![k].entry.transactions = Append(@, record),
                ![k].entry.total_paye = @ + record.amount]

\* the same with the score, confidence and reasons of the last transaction
UpdateMax_dernier(bucket, key, result) ==
  LET k == IndexOf(bucket, key)
  IN  [bucket EXCEPT ![k].entry.score = result.score,
                     ![k].entry.confidence = result.confidence,
                     ![k].entry.reasons = result.reasons]

\* if score > bucket[key]['score']: score, confidence and reasons are replaced
UpdateMax(bucket, key, result) ==
  LET k == IndexOf(bucket, key)
  IN  IF result.score > bucket[k].entry.score
        THEN [bucket EXCEPT ![k].entry.score = result.score,
                            ![k].entry.confidence = result.confidence,
                            ![k].entry.reasons = result.reasons]
        ELSE bucket

\* if amount > 0: continue
IsCredit(amount) == amount > 0

\* amount = trans.get('amount', trans.get('Montant', 0)): a record holds the
\* field amount when its amount is a number; a record whose amount is null
\* or a string holds the field amount_json instead, and a record without the
\* key holds neither
AmountGet(trans) == IF "amount" \in DOMAIN trans THEN trans.amount ELSE 0

\* 'amount > 0' raises TypeError when amount is None or a string
RaisesTypeError(trans) == "amount_json" \in DOMAIN trans

\* the exception leaving detect_lenders_hybrid
TypeError == [raised |-> "TypeError"]

\* the same with a history that outlives the call
HistoryOf_conserve(old_history, trans_list) == old_history \o trans_list

\* transaction_history = transactions.copy(), at the start of a call
HistoryOf(old_history, trans_list) == trans_list

\* the same with the description as the name of every entry
PreteurNom_description(result, description) == Prefix(description, 40)

\* preteur_nom = result['preteur_nom'] or description[:40]
PreteurNom(result, description) ==
  IF result.preteur_nom # <<>> THEN result.preteur_nom
  ELSE Prefix(description, 40)

\* the same with the probable bucket taking the scores from 50 on
Categoriser_seuil_50(b, trans, result) ==
  LET description == trans.description
      amount == Abs(AmountGet(trans))
      score == result.score
      source == result.source
      preteur_nom == PreteurNom(result, description)
      entry == [nom |-> preteur_nom, score |-> score,
                confidence |-> result.confidence, source |-> source,
                reasons |-> result.reasons, action |-> result.action,
                transactions |-> <<>>, total_paye |-> 0]
      record == [date |-> trans.date, description |-> description,
                 amount |-> amount]
      key_regles == Prefix(normalize_description(description), 30)
  IN  IF source = "EXCLUSION"
        THEN [b EXCEPT !.result = result,
                       !.exclusions =
                         AddTransaction(@, preteur_nom, entry, record)]
      ELSE IF source \in {"LISTE_OPC", "LISTE_COMPLEMENTAIRE"}
        THEN [b EXCEPT !.result = result,
                       !.preteurs_confirmes =
                         AddTransaction(@, preteur_nom, entry, record)]
      ELSE IF score >= 50
        THEN [b EXCEPT !.result = result,
                       !.preteurs_probables =
                UpdateMax(AddTransaction(@, key_regles, entry, record),
                          key_regles, result)]
      ELSE IF score >= 40
        THEN [b EXCEPT !.result = result,
                       !.preteurs_possibles =
                UpdateMax(AddTransaction(@, key_regles, entry, record),
                          key_regles, result)]
      ELSE [b EXCEPT !.result = result]

\* the rest of an iteration once trans is scored: the branch on the source
\* and the score of result
Categoriser(b, trans, result) ==
  LET description == trans.description
      amount == Abs(AmountGet(trans))
      score == result.score
      source == result.source
      preteur_nom == PreteurNom(result, description)
      entry == [nom |-> preteur_nom, score |-> score,
                confidence |-> result.confidence, source |-> source,
                reasons |-> result.reasons, action |-> result.action,
                transactions |-> <<>>, total_paye |-> 0]
      record == [date |-> trans.date, description |-> description,
                 amount |-> amount]
      key_regles == Prefix(normalize_description(description), 30)
  IN  IF source = "EXCLUSION"
        THEN [b EXCEPT !.result = result,
                       !.exclusions =
                         AddTransaction(@, preteur_nom, entry, record)]
      ELSE IF source \in {"LISTE_OPC", "LISTE_COMPLEMENTAIRE"}
        THEN [b EXCEPT !.result = result,
                       !.preteurs_confirmes =
                         AddTransaction(@, preteur_nom, entry, record)]
      ELSE IF score >= 60
        THEN [b EXCEPT !.result = result,
                       !.preteurs_probables =
                UpdateMax(AddTransaction(@, key_regles, entry, record),
                          key_regles, result)]
      ELSE IF score >= 40
        THEN [b EXCEPT !.result = result,
                       !.preteurs_possibles =
                UpdateMax(AddTransaction(@, key_regles, entry, record),
                          key_regles, result)]
      ELSE [b EXCEPT !.result = result]

\* one iteration of the for loop: the four buckets and the local result
\* after trans
ProcessTransaction(b, trans, history) ==
  IF IsCredit(AmountGet(trans)) THEN b
  ELSE IF est_exclus(trans.description, trans.category) THEN b
  ELSE Categoriser(b, trans,
         calculate_lender_score_hybrid(trans.description,
                                       Abs(AmountGet(trans)), history))

\* the same with the possible total counted in the estimated total
Statistiques_avec_possibles(b, trans_list) ==
  LET total_dette_confirmee == SumTotalPaye(Values(b.preteurs_confirmes))
      total_dette_probable == SumTotalPaye(Values(b.preteurs_probables))
      total_dette_possible == SumTotalPaye(Values(b.preteurs_possibles))
  IN  [nb_preteurs_confirmes |-> Len(b.preteurs_confirmes),
       nb_preteurs_probables |-> Len(b.preteurs_probables),
       nb_preteurs_possibles |-> Len(b.preteurs_possibles),
       nb_exclusions |-> Len(b.exclusions),
       total_transactions_analysees |-> Len(trans_list),
       dette_confirmee |-> total_dette_confirmee,
       dette_probable |-> total_dette_probable,
       dette_possible |-> total_dette_possible,
       dette_totale_estimee |->
         total_dette_confirmee + total_dette_probable + total_dette_possible]

Statistiques(b, trans_list) ==
  LET total_dette_confirmee == SumTotalPaye(Values(b.preteurs_confirmes))
      total_dette_probable == SumTotalPaye(Values(b.preteurs_probables))
      total_dette_possible == SumTotalPaye(Values(b.preteurs_possibles))
  IN  [nb_preteurs_confirmes |-> Len(b.preteurs_confirmes),
       nb_preteurs_probables |-> Len(b.preteurs_probables),
       nb_preteurs_possibles |-> Len(b.preteurs_possibles),
       nb_exclusions |-> Len(b.exclusions),
       total_transactions_analysees |-> Len(trans_list),
       dette_confirmee |-> total_dette_confirmee,
       dette_probable |-> total_dette_probable,
       dette_possible |-> total_dette_possible,
       dette_totale_estimee |-> total_dette_confirmee + total_dette_probable]

\* the value detect_lenders_hybrid returns
DetectionResult(b, trans_list) ==
  [preteurs_confirmes |-> Values(b.preteurs_confirmes),
   preteurs_probables |-> Values(b.preteurs_probables),
   preteurs_possibles |-> Values(b.preteurs_possibles),
   exclusions |-> Values(b.exclusions),
   statistiques |-> Statistiques(b, trans_list)]

\* the locals of detect_lenders_hybrid before its loop
EmptyBuckets ==
  [preteurs_confirmes |-> <<>>, preteurs_probables |-> <<>>,
   preteurs_possibles |-> <<>>, exclusions |-> <<>>, result |-> [none |-> TRUE]]

\* the locals after the first k iterations of the loop over trans_list
RECURSIVE RunLoop(_, _)
RunLoop(trans_list, k) ==
  IF k = 0 THEN EmptyBuckets
  ELSE ProcessTransaction(RunLoop(trans_list, k - 1), trans_list[k],
                          HistoryOf(<<>>, trans_list))

\* the function as a whole: the value it returns for trans_list, or the
\* exception of the first record whose amount cannot be compared
detect_lenders_hybrid(trans_list) ==
  IF \E k \in 1..Len(trans_list) : RaisesTypeError(trans_list[k])
    THEN TypeError
    ELSE DetectionResult(RunLoop(trans_list, Len(trans_list)), trans_list)

\* keywords of a payroll deposit
PAYROLL_KEYWORDS ==
  << <<"P","A","I","E">>,  \* PAIE
     <<"P","A","Y","R","O","L","L">>,  \* PAYROLL
     <<"S","A","L","A","R","Y">>,  \* SALARY
     <<"S","A","L","A","I","R","E">>,  \* SALAIRE
     <<"P","A","Y">>,  \* PAY
     <<"W","A","G","E">>,  \* WAGE
     <<"D","I","R","E","C","T"," ","D","E","P","O","S","I","T">>,  \* DIRECT DEPOSIT
     <<"D","E","P","O","T"," ","D","I","R","E","C","T">>,  \* DEPOT DIRECT
     <<"R","E","M","U","N","E","R","A","T","I","O","N">> >>  \* REMUNERATION

\* the positions of the credits of trans_list, those of payroll deposits
\* when payroll is TRUE
Credits(trans_list, payroll) ==
  { k \in 1..Len(trans_list) :
      /\ AmountGet(trans_list[k]) > 0
      /\ payroll => AnyIn(PAYROLL_KEYWORDS, upper(trans_list[k].description)) }

RECURSIVE SumCredits(_, _)
SumCredits(trans_list, positions) ==
  IF positions = {} THEN 0
  ELSE LET k == CHOOSE j \in positions : TRUE
       IN  AmountGet(trans_list[k]) + SumCredits(trans_list, positions \ {k})

\* date.strftime("%Y-%m"): the records of every pool are dated in
\* November 2025
MonthKey(date) == "2025-11"

\* the monthly mean of the payroll deposits, of all credits when there is
\* no payroll deposit, 0 without credits; the quotient is exact with the
\* credits of one month
calculate_monthly_income_from_transactions(trans_list) ==
  LET paie == Credits(trans_list, TRUE)
      used == IF paie # {} THEN paie ELSE Credits(trans_list, FALSE)
  IN  IF used = {} THEN 0
      ELSE SumCredits(trans_list, used)
             \div Cardinality({ MonthKey(trans_list[k].date) : k \in used })

\* monthly_income of generate_report_enrichi
MonthlyIncome(cl, trans_list) ==
  IF cl.revenu_mensuel = 0
    THEN calculate_monthly_income_from_transactions(trans_list)
    ELSE cl.revenu_mensuel

\* data_evaluation of generate_report_enrichi
DataEvaluation(stats, cl, monthly_income) ==
  LET total_dette == stats.dette_totale_estimee
  IN  [revenus_mensuels |-> monthly_income,
       total_paiements_prets |-> total_dette,
       budget_disponible |-> Ratio(monthly_income * 5 - total_dette * 10, 10),
       nb_preteurs_confirmes |->
         stats.nb_preteurs_confirmes + stats.nb_preteurs_probables,
       nsf_30_jours |-> cl.nsf_30j,
       overdraft_90_jours |-> cl.overdraft_90j]

MONTANTS_OFFRES == <<500, 1000, 1500, 2000, 2500, 3000>>

\* the chances generate_report_enrichi lists under OFFRES DISPONIBLES
Probabilites(stats, monthly_income, score_global) ==
  LET total_dette == stats.dette_totale_estimee
      nb_preteurs == stats.nb_preteurs_confirmes + stats.nb_preteurs_probables
      ratio_dette_revenu ==
        IF monthly_income > 0 THEN Ratio(total_dette, monthly_income)
                              ELSE Ratio(1, 1)
      capacite_50_pct == Ratio(monthly_income * 5, 10)
  IN  [k \in 1..Len(MONTANTS_OFFRES) |->
         calculer_probabilite_realiste(score_global, ratio_dette_revenu,
           nb_preteurs, MONTANTS_OFFRES[k], capacite_50_pct)]
\* ------------------------------------------------------------------------
\* HTTP endpoints (app.py).  A JSON object is a record, a JSON array a
\* sequence; a Python dict that is filled key by key is the sequence of its
\* pairs in insertion order.  Amounts are whole dollars; a value rounded to
\* two decimals is a Ratio of cents.
\* ------------------------------------------------------------------------
\* is_nsf: NSF, INSUFFICIENT, FONDS INSUFF or OVERDRAFT in the description,
\* or "nsf" in one of the flags
is_nsf(description, flags) ==
  \/ Contains(<<"N","S","F">>, description)
  \/ Contains(<<"I","N","S","U","F","F","I","C","I","E","N","T">>, description)
  \/ Contains(<<"F","O","N","D","S"," ","I","N","S","U","F","F">>, description)
  \/ Contains(<<"O","V","E","R","D","R","A","F","T">>, description)
  \/ \E k \in 1..Len(flags) : Contains(<<"n","s","f">>, lower(flags[k]))

\* Python's truth value of a tuple: true when it has components
bool(t) == DOMAIN t # {}

\* Python's dict.get(key) used as a condition: the key is there and its
\* value is not empty
get(d, key) == key \in DOMAIN d /\ d[key] # <<>>

\* str(n) of a natural number
RECURSIVE str(_)
str(n) ==
  IF n < 10 THEN << DIGITS[n + 1] >>
  ELSE str(n \div 10) \o << DIGITS[(n % 10) + 1] >>

\* round(total / 3, 2)
round_third(total) == Ratio((200 * total + 3) \div 6, 100)

\* dict[key] = value
SetItem(dict, key, value) ==
  IF HasKey(dict, key)
    THEN [dict EXCEPT ![IndexOf(dict, key)].entry = value]
    ELSE Append(dict, [key |-> key, entry |-> value])

\* the accumulators of an analysis before its loop
Accumulators ==
  [total_transactions |-> 0, preteurs_detectes |-> <<>>, nsf_count |-> 0,
   nsf_details |-> <<>>, total_revenus |-> 0, total_depenses |-> 0,
   debt_total |-> 0]

\* one more transaction of the lender, whose entry is created when the
\* lender is seen for the first time
AddPreteur(preteurs_detectes, nom, tx_date, montant, description, direct) ==
  LET new == IF direct
               THEN [nom |-> nom, source |-> "detection",
                     transactions |-> <<>>, total |-> 0]
               ELSE [nom |-> nom, count |-> 0, total |-> 0]
      d == IF HasKey(preteurs_detectes, nom) THEN preteurs_detectes
           ELSE Append(preteurs_detectes, [key |-> nom, entry |-> new])
      k == IndexOf(d, nom)
  IN  IF direct
        THEN [d EXCEPT ![k].entry.transactions =
                          Append(@, [date |-> tx_date, amount |-> montant,
                                     description |-> description]),
                       ![k].entry.total = @ + montant]
        ELSE [d EXCEPT ![k].entry.count = @ + 1,
                       ![k].entry.total = @ + montant]

\* the body of the loop over the transactions of an account, given the
\* upper-case description, the NSF test and the values of est_preteur and
\* categoriser_transaction
Accumulate(acc, tx, description, nsf, preteur, info, direct) ==
  LET debit == tx.debit
      credit == tx.credit
      montant == IF debit # 0 THEN debit ELSE credit   \* debit or credit
      detected == bool(preteur) /\ get(info, "preteur")
  IN  [acc EXCEPT
         !.nsf_count = IF nsf THEN @ + 1 ELSE @,
         !.nsf_details =
            IF nsf THEN Append(@, [date |-> tx.date, montant |-> montant,
                                   description |-> description])
            ELSE @,
         !.total_revenus = IF credit > 0 THEN @ + credit ELSE @,
         !.total_depenses = IF debit > 0 THEN @ + debit ELSE @,
         !.preteurs_detectes =
            IF detected
              THEN AddPreteur(@, info["preteur"], tx.date, montant,
                              description, direct)
              ELSE @,
         !.debt_total = IF detected THEN @ + montant ELSE @]

AnalyseTransaction(acc, tx, description, direct) ==
  Accumulate(acc, tx, description, is_nsf(description, tx.flags),
             est_preteur(description), categoriser_transaction(description),
             direct)

RECURSIVE AnalyseTransactions(_, _, _)
AnalyseTransactions(acc, txs, direct) ==
  IF txs = <<>> THEN acc
  ELSE AnalyseTransactions(
         AnalyseTransaction(acc, Head(txs), upper(Head(txs).details), direct),
         Tail(txs), direct)

\* the loop over the accounts
RECURSIVE AnalyseAccounts(_, _, _)
AnalyseAccounts(acc, accounts, direct) ==
  IF accounts = <<>> THEN acc
  ELSE LET txs == Head(accounts).transactions
           counted == [acc EXCEPT !.total_transactions = @ + Len(txs)]
       IN  AnalyseAccounts(AnalyseTransactions(counted, txs, direct),
                           Tail(accounts), direct)

\* the score: 100, less the lender and the NSF penalties, never below 0
ScoreRisque(nb_preteurs, nsf_count) ==
  Max(100 - Min(nb_preteurs * 10, 40) - Min(nsf_count * 5, 25), 0)

Alertes(acc) ==
  LET nb_preteurs == Len(acc.preteurs_detectes)
      keys == [k \in 1..nb_preteurs |-> acc.preteurs_detectes[k].key]
  IN  (IF nb_preteurs > 0
         THEN << [type |-> "preteurs", niveau |-> IF nb_preteurs >= 3 THEN "critical"
                             ELSE "warning",
                  message |-> str(nb_preteurs) \o
                    <<" ","p","r","ec","t","e","u","r","(","s",")"," ",
                      "a","l","t","e","r","n","a","t","i","f","(","s",")",
                      " ","d","ea","t","e","c","t","ea","(","s",")">>,
                  details |-> keys] >>
         ELSE <<>>)
      \o
      (IF acc.nsf_count > 0
         THEN << [type |-> "nsf", niveau |-> IF acc.nsf_count >= 3 THEN "critical"
                             ELSE "warning",
                  message |-> str(acc.nsf_count) \o
                    <<" ","t","r","a","n","s","a","c","t","i","o","n",
                      "(","s",")"," ","N","S","F"," ","d","ea","t","e",
                      "c","t","ea","e","(","s",")">>,
                  details |-> acc.nsf_details] >>
         ELSE <<>>)

\* the response of analyze_direct to a body without stats or payschedules
DirectResult(body, acc, t) ==
  LET nb_preteurs == Len(acc.preteurs_detectes)
      score == ScoreRisque(nb_preteurs, acc.nsf_count)
  IN  [success |-> TRUE,
       client |-> [nom |-> body.name, reference |-> <<>>],
       resume |->
         [score_risque |-> str(score),
          decision |-> IF score >= 70 THEN "BON DOSSIER"
                       ELSE IF score >= 50 THEN "ATTENTION REQUISE"
                       ELSE "DOSSIER A RISQUE",
          revenu_mensuel |-> round_third(acc.total_revenus),
          depenses_mensuelles |-> round_third(acc.total_depenses),
          nsf_count |-> acc.nsf_count,
          preteurs_count |-> nb_preteurs,
          debt_detected |-> acc.debt_total],
       preteurs |-> Values(acc.preteurs_detectes),
       alertes |-> Alertes(acc),
       nsf_details |-> acc.nsf_details,
       timestamp |-> t]

analyze_direct(body, t) ==
  DirectResult(body, AnalyseAccounts(Accumulators, body.accounts, TRUE), t)

\* the clock read by datetime.now() counts ticks, TicksPerSecond to a second
TicksPerSecond == 2

\* report_data of analyze_inverite for a body without stats or payschedules;
\* report_id is RPT_ and the clock to the second
ReportData(body, acc, t) ==
  LET nb_preteurs == Len(acc.preteurs_detectes)
  IN  [success |-> TRUE,
       id |-> << "RPT", t \div TicksPerSecond >>,
       client |-> [nom |-> body.name],
       score_global |-> ScoreRisque(nb_preteurs, acc.nsf_count),
       resume |->
         [transactions_analysees |-> acc.total_transactions,
          preteurs_count |-> nb_preteurs,
          nsf_count |-> acc.nsf_count,
          revenu_mensuel |-> round_third(acc.total_revenus),
          revenus |-> acc.total_revenus,
          depenses |-> acc.total_depenses,
          debt_detected |-> acc.debt_total],
       preteurs_detectes |-> Values(acc.preteurs_detectes),
       nsf_details |-> acc.nsf_details,
       alertes |-> Alertes(acc),
       timestamp |-> t]

report_data(body, t) ==
  ReportData(body, AnalyseAccounts(Accumulators, body.accounts, FALSE), t)

\* ------------------------------------------------------------------------
\* State: the calls of the pipeline in progress
\* ------------------------------------------------------------------------
VARIABLES
  transactions,         \* per call: the batch passed to detect_lenders_hybrid
  client,               \* per call: monthly income, NSF and overdraft counts
  pc,                   \* per call: position in the pipeline
  runs,                 \* per call: number of times the pipeline was started
  idx,                  \* per frame: position of the for loop in the batch
  transaction_history,  \* per frame: local of detect_lenders_hybrid
  preteurs_confirmes,   \* per frame: local dict
  preteurs_probables,   \* per frame: local dict
  preteurs_possibles,   \* per frame: local dict
  exclusions,           \* per frame: local dict
  result,               \* per frame: last value of calculate_lender_score_hybrid
  args,                 \* arguments of a direct calculate_lender_score_hybrid call
  detection_result,     \* per call: value returned by detect_lenders_hybrid
  data,                 \* per call: data_evaluation
  knock_outs_result,    \* per call: value returned by verifier_knock_outs
  score_result,         \* per call: value returned by calculer_score_avance
  chances,              \* per call: values of calculer_probabilite_realiste
  previous,             \* per call: the results of the previous run
  request_json,         \* per request: the JSON body posted to the endpoint
  REPORTS_CACHE,        \* the module-level dict of app.py
  rapports_cache,       \* the files of the directory rapports-cache
  now,                  \* the clock read by datetime.now(), in ticks
  responses             \* per request: the last response received

vars ==
  << transactions, client, pc, runs, idx, transaction_history,
     preteurs_confirmes, preteurs_probables, preteurs_possibles, exclusions,
     result, args, detection_result, data, knock_outs_result, score_result,
     chances, previous, request_json, REPORTS_CACHE, rapports_cache, now,
     responses >>

server_vars == << request_json, REPORTS_CACHE, rapports_cache, now, responses >>

Calls == {1, 2}

\* the same with one frame shared by every call
Frame_partage(c) == 1

\* the locals of detect_lenders_hybrid belong to the call: one frame per call
Frame(c) == c

None == [none |-> TRUE]

\* ------------------------------------------------------------------------
\* Inputs
\* ------------------------------------------------------------------------
MaxBatch == 2

MaxConcBatch == 1

MaxRuns == 2

MONEY_MART_MONTREAL ==
  <<"M","O","N","E","Y"," ","M","A","R","T"," ","M","O","N","T","R","E","A","L">>

BENEVA_MONEY_MART ==
  <<"B","E","N","E","V","A"," ","M","O","N","E","Y"," ","M","A","R","T">>

Cash_Money == <<"C","a","s","h"," ","M","o","n","e","y">>

BENEVA_ASSURANCE ==
  <<"B","E","N","E","V","A"," ","A","S","S","U","R","A","N","C","E">>

TIM_HORTONS_6364 ==
  <<"T","I","M"," ","H","O","R","T","O","N","S"," ","#","6","3","6","4">>

PMT_CREDIT_SERVICE_123 ==
  <<"P","M","T"," ","C","R","E","D","I","T"," ","S","E","R","V","I","C","E"," ","1","2","3">>

SALAIRE_EMPLOYEUR_ABC ==
  <<"S","A","L","A","I","R","E"," ","E","M","P","L","O","Y","E","U","R"," ","A","B","C">>

FAST_FUNDS_INC == <<"F","A","S","T"," ","F","U","N","D","S"," ","I","N","C">>

DEBIT == <<"D","E","B","I","T">>

PMT_CREDIT_SERVICE_123_QC ==
  <<"P","M","T"," ","C","R","E","D","I","T"," ","S","E","R","V","I","C","E"," ","1","2","3"," ","Q","C">>

VIR_LOAN_COMPANY_ABC ==
  <<"V","I","R"," ","L","O","A","N"," ","C","O","M","P","A","N","Y"," ","A","B","C">>

FINANCE_EXPRESS_INC ==
  <<"F","I","N","A","N","C","E"," ","E","X","P","R","E","S","S"," ","I","N","C">>

LOAN_CO == <<"L","O","A","N"," ","C","O">>

PMT_CREDIT_REFUND ==
  <<"P","M","T"," ","C","R","E","D","I","T"," ","R","E","F","U","N","D">>

PAYMENT_CASH_ADVANCE ==
  <<"P","A","Y","M","E","N","T"," ","C","A","S","H"," ","A","D","V","A","N","C","E">>

NO_CATEGORY == <<>>

TRANSFER_CATEGORY == <<"t","r","a","n","s","f","e","r">>

GAMBLING_CATEGORY ==
  <<"e","n","t","e","r","t","a","i","n","m","e","n","t","/","g","a","m","b","l","i","n","g">>

Trans(date, description, amount, category) ==
  [date |-> date, description |-> description, amount |-> amount,
   category |-> category]

\* transaction records a batch is made of (negative amount = outflow)
TRANSACTIONS ==
  { Trans("2025-11-01", MONEY_MART_MONTREAL, -300, NO_CATEGORY),
    Trans("2025-11-02", BENEVA_MONEY_MART, -120, NO_CATEGORY),
    Trans("2025-11-04", BENEVA_ASSURANCE, -851, NO_CATEGORY),
    Trans("2025-11-06", PMT_CREDIT_SERVICE_123, -500, NO_CATEGORY),
    Trans("2025-11-07", PMT_CREDIT_SERVICE_123, -2500, NO_CATEGORY),
    Trans("2025-11-08", FAST_FUNDS_INC, -300, NO_CATEGORY),
    Trans("2025-11-09", MONEY_MART_MONTREAL, 300, NO_CATEGORY),
    Trans("2025-11-10", Cash_Money, 0, TRANSFER_CATEGORY),
    Trans("2025-11-11", DEBIT, -25000, NO_CATEGORY),
    Trans("2025-11-12", FAST_FUNDS_INC, -300, GAMBLING_CATEGORY) }

\* transaction records of the batches of two concurrent calls
CONC_TRANSACTIONS ==
  { Trans("2025-11-01", MONEY_MART_MONTREAL, -300, NO_CATEGORY),
    Trans("2025-11-04", BENEVA_ASSURANCE, -851, NO_CATEGORY),
    Trans("2025-11-06", PMT_CREDIT_SERVICE_123, -500, NO_CATEGORY) }

\* near-identical outflows and an unrelated one
MaxRepeatBatch == 5

REPEAT_TRANSACTIONS ==
  { Trans("2025-11-01", PMT_CREDIT_SERVICE_123, -200, NO_CATEGORY),
    Trans("2025-11-02", PMT_CREDIT_SERVICE_123_QC, -200, NO_CATEGORY),
    Trans("2025-11-03", FAST_FUNDS_INC, -300, NO_CATEGORY) }

\* records with a number, no key, a null and a string as their amount
MaxAmountBatch == 3

AMOUNT_TRANSACTIONS ==
  { Trans("2025-11-01", MONEY_MART_MONTREAL, -300, NO_CATEGORY),
    Trans("2025-11-02", PMT_CREDIT_SERVICE_123, -500, NO_CATEGORY),
    [date |-> "2025-11-03", description |-> PMT_CREDIT_SERVICE_123,
     category |-> NO_CATEGORY],
    [date |-> "2025-11-04", description |-> PMT_CREDIT_SERVICE_123,
     amount_json |-> "null", category |-> NO_CATEGORY],
    [date |-> "2025-11-05", description |-> MONEY_MART_MONTREAL,
     amount_json |-> "string", category |-> NO_CATEGORY] }
FAST_HYPHEN_FUNDS_INC ==
  <<"F","A","S","T","-","F","U","N","D","S"," ","I","N","C">>

PMT_CREDIT_HYPHEN_SERVICE_123 ==
  <<"P","M","T"," ","C","R","E","D","I","T","-","S","E","R","V","I","C","E"," ","1","2","3">>

BENEVA_VIE ==
  <<"B","E","N","E","V","A"," ","V","I","E">>

INTERAC_E_TRANSFER_TO_MONEY_MART ==
  <<"I","N","T","E","R","A","C"," ","E","-","T","R","A","N","S","F","E","R"," ","T","O"," ","M","O","N","E","Y"," ","M","A","R","T">>

\* outflows that share a bucket key or a registry entry, a transfer to a
\* lender and an outflow that no bucket takes
MaxBucketBatch == 2

BUCKET_TRANSACTIONS ==
  { Trans("2025-11-01", FAST_FUNDS_INC, -320, NO_CATEGORY),
    Trans("2025-11-02", FAST_HYPHEN_FUNDS_INC, -300, NO_CATEGORY),
    Trans("2025-11-03", PMT_CREDIT_SERVICE_123, -2500, NO_CATEGORY),
    Trans("2025-11-04", PMT_CREDIT_HYPHEN_SERVICE_123, -500, NO_CATEGORY),
    Trans("2025-11-05", BENEVA_ASSURANCE, -851, NO_CATEGORY),
    Trans("2025-11-06", BENEVA_VIE, -100, NO_CATEGORY),
    Trans("2025-11-07", MONEY_MART_MONTREAL, -300, TRANSFER_CATEGORY),
    Trans("2025-11-08", INTERAC_E_TRANSFER_TO_MONEY_MART, -300,
          TRANSFER_CATEGORY),
    Trans("2025-11-09", DEBIT, -25000, NO_CATEGORY) }

\* all lists of at most n records of pool
Batches(pool, n) == UNION { [1..k -> pool] : k \in 0..n }

Client(revenu, nsf, overdraft) ==
  [revenu_mensuel |-> revenu, nsf_30j |-> nsf, overdraft_90j |-> overdraft]

CLIENTS == { Client(0, 0, 0), Client(3000, 1, 0) }

MaxPreteurs == 6

MaxNSF == 3

MaxOverdraft == 6

MaxHistory == 2

REVENUS == {0, 1000, 3000}

PAIEMENTS == {0, 400, 501, 1000, 1500, 3000, 3200, 6001}

BUDGETS == {-100, 0, 499, 500, 1200, 1500}

\* data_evaluation records given directly to the knock-out evaluator
DATA ==
  { [revenus_mensuels |-> r, total_paiements_prets |-> p,
     budget_disponible |-> Ratio(b, 1), nb_preteurs_confirmes |-> n,
     nsf_30_jours |-> s, overdraft_90_jours |-> o] :
      r \in REVENUS, p \in PAIEMENTS, b \in BUDGETS, n \in 0..MaxPreteurs,
      s \in 0..MaxNSF, o \in 0..MaxOverdraft }

DESCRIPTIONS ==
  { MONEY_MART_MONTREAL, BENEVA_MONEY_MART, Cash_Money, BENEVA_ASSURANCE,
    TIM_HORTONS_6364, PMT_CREDIT_SERVICE_123, SALAIRE_EMPLOYEUR_ABC,
    FAST_FUNDS_INC, DEBIT, PMT_CREDIT_REFUND, VIR_LOAN_COMPANY_ABC,
    FINANCE_EXPRESS_INC, LOAN_CO, PAYMENT_CASH_ADVANCE }

AMOUNTS == {0, 49, 300, 320, 1999, 2500, 3000, 5001, 10001, 25000, -500}

HISTORY_DESCRIPTIONS ==
  { MONEY_MART_MONTREAL, PMT_CREDIT_SERVICE_123, FAST_FUNDS_INC,
    PMT_CREDIT_REFUND }

\* arguments of a direct call of calculate_lender_score_hybrid
\* the numbers of occurrences of a description in a history made of it
MaxRepeat == 21

REPEATS == {3, 5, MaxRepeat}

\* a history of n transactions of the same description
Copies(description, n) ==
  [k \in 1..n |-> Trans("2025-11-01", description, -100, NO_CATEGORY)]

ARGS ==
  UNION { { [description |-> d, amount |-> a, transaction_history |-> h] :
              a \in AMOUNTS,
              h \in Batches({ Trans("2025-11-01", hd, -100, NO_CATEGORY) :
                                hd \in HISTORY_DESCRIPTIONS }, MaxHistory)
                       \cup { Copies(d, n) : n \in REPEATS } } :
          d \in DESCRIPTIONS }

\* the arguments of a direct call of categoriser_transaction: descriptions
\* made of names of the five lists and of a word of none
MaxTokens == 3

TOKENS ==
  { <<"M","O","N","E","Y"," ","M","A","R","T">>, <<"b","e","n","e","v","a">>,
    <<"S","Y","N","D","I","C">>, <<"P","o","k","e","r">>,
    <<"P","I","Z","Z","A">>, <<"F","U","N","D","S">> }

RECURSIVE Join(_)
Join(tokens) ==
  IF tokens = <<>> THEN <<>>
  ELSE IF Len(tokens) = 1 THEN tokens[1]
  ELSE tokens[1] \o <<" ">> \o Join(Tail(tokens))

CATEGORISER_ARGS ==
  { [description |-> Join(tokens)] : tokens \in Batches(TOKENS, MaxTokens) }

\* the arguments of a direct call of count_similar_transactions
MaxSimilarHistory == 3

Fast_Funds_Inc == <<"F","a","s","t"," ","F","u","n","d","s"," ","I","n","c">>

Pmt_Credit_Service_123_Qc ==
  <<"P","m","t"," ","C","r","e","d","i","t"," ","S","e","r","v","i","c","e"," ","1","2","3"," ","Q","c">>

BLANK == <<" "," ">>

SIMILAR_DESCRIPTIONS ==
  { PMT_CREDIT_SERVICE_123, Pmt_Credit_Service_123_Qc, Fast_Funds_Inc,
    BLANK }

SIMILAR_ARGS ==
  { [description |-> d, transaction_history |-> h] :
      d \in SIMILAR_DESCRIPTIONS,
      h \in Batches({ Trans("2025-11-01", hd, -100, NO_CATEGORY) :
                        hd \in SIMILAR_DESCRIPTIONS }, MaxSimilarHistory) }

\* the arguments of a direct call of est_exclus: names made of a lender
\* name, of keywords, of a bank pattern and of a word of no list, under no
\* tag, two transfer tags, a gambling tag and a tag of no rule
MaxExclusTokens == 2

EXCLUS_TOKENS ==
  { <<"M","O","N","E","Y"," ","M","A","R","T">>,
    <<"C","r","e","d","i","t">>,
    <<"L","O","A","N">>,
    <<"A","D","V","A","N","C","E">>,
    <<"C","A","S","H">>,
    <<"S","E","C","O","U","R","S">>,
    <<"D","U","P","O","N","T">>,
    <<"V","I","S","A">>,
    <<"F","I","N","A","N","C","E">> }

TRANSFERS_INTERNAL ==
  <<"T","r","a","n","s","f","e","r","s","/","I","n","t","e","r","n","a","l">>

SHOPPING_CATEGORY == <<"s","h","o","p","p","i","n","g">>

EXCLUS_CATEGORIES ==
  { NO_CATEGORY, TRANSFER_CATEGORY, TRANSFERS_INTERNAL, GAMBLING_CATEGORY,
    SHOPPING_CATEGORY }

EXCLUS_ARGS ==
  { [nom |-> Join(tokens), categorie |-> categorie] :
      tokens \in Batches(EXCLUS_TOKENS, MaxExclusTokens),
      categorie \in EXCLUS_CATEGORIES }
\* the requests posted to the endpoints: two clients, each with one account
\* of up to MaxAppBatch transactions in the Inverite format
MaxAppBatch == 2

\* the last tick of the clock
MaxClock == 2

NSF_FEE == <<"N","S","F"," ","F","E","E">>

InveriteTransaction(date, details, debit, credit) ==
  [date |-> date, details |-> details, debit |-> debit, credit |-> credit,
   flags |-> <<>>]

APP_TRANSACTIONS ==
  { InveriteTransaction("2025-11-03", MONEY_MART_MONTREAL, 300, 0),
    InveriteTransaction("2025-11-04", Cash_Money, 0, 500),
    InveriteTransaction("2025-11-05", NSF_FEE, 45, 0) }

CLIENT_NAMES == << "Alice Tremblay", "Bob Gagnon" >>

Bodies(c) ==
  { [name |-> CLIENT_NAMES[c], accounts |-> << [transactions |-> batch] >>] :
      batch \in Batches(APP_TRANSACTIONS, MaxAppBatch) }

\* the arguments of a direct call of calculer_probabilite_realiste
MaxChancePreteurs == 9

SCORES_GLOBAUX == {-10, 0, 29, 30, 39, 40, 49, 50, 59, 60, 69, 70, 79, 80, 100, 120}

RATIOS_DETTE ==
  { Ratio(n, 100) : n \in {-10, 0, 40, 41, 50, 51, 60, 61, 80, 81, 100, 250} }

CAPACITES ==
  { Ratio(n, 1) : n \in {-500, 0, 500, 625, 1250, 1251, 1500, 2500, 7500, 7501} }

CHANCE_ARGS ==
  { [score_global |-> s, ratio_dette |-> r, nb_preteurs |-> n,
     montant_demande |-> m, capacite_max |-> cap] :
      s \in SCORES_GLOBAUX, r \in RATIOS_DETTE, n \in 0..MaxChancePreteurs,
      m \in {500, 3000}, cap \in CAPACITES }

\* ------------------------------------------------------------------------
\* Initial states
\* ------------------------------------------------------------------------
InitLocals ==
  /\ idx = [f \in Calls |-> 0]
  /\ transaction_history = [f \in Calls |-> <<>>]
  /\ preteurs_confirmes = [f \in Calls |-> <<>>]
  /\ preteurs_probables = [f \in Calls |-> <<>>]
  /\ preteurs_possibles = [f \in Calls |-> <<>>]
  /\ exclusions = [f \in Calls |-> <<>>]
  /\ result = [f \in Calls |-> None]

InitResults ==
  /\ runs = [c \in Calls |-> 0]
  /\ detection_result = [c \in Calls |-> None]
  /\ knock_outs_result = [c \in Calls |-> None]
  /\ score_result = [c \in Calls |-> None]
  /\ chances = [c \in Calls |-> None]
  /\ previous = [c \in Calls |-> None]

\* the server has just started: empty cache, empty directory, nothing posted
InitServer ==
  /\ REPORTS_CACHE = <<>>
  /\ rapports_cache = <<>>
  /\ now = 0
  /\ responses = [c \in Calls |-> None]

\* one call of the pipeline on a batch
Init ==
  /\ \E batch \in Batches(TRANSACTIONS, MaxBatch) :
       transactions = [c \in Calls |-> IF c = 1 THEN batch ELSE <<>>]
  /\ \E cl \in CLIENTS : client = [c \in Calls |-> cl]
  /\ pc = [c \in Calls |-> IF c = 1 THEN "start" ELSE "idle"]
  /\ args = None
  /\ data = [c \in Calls |-> None]
  /\ InitLocals
  /\ InitResults
  /\ InitServer
  /\ request_json = [c \in Calls |-> None]

\* two calls of the pipeline, each on its own batch
InitConc ==
  /\ transactions \in [Calls -> Batches(CONC_TRANSACTIONS, MaxConcBatch)]
  /\ client = [c \in Calls |-> Client(3000, 1, 0)]
  /\ pc = [c \in Calls |-> "start"]
  /\ args = None
  /\ data = [c \in Calls |-> None]
  /\ InitLocals
  /\ InitResults
  /\ InitServer
  /\ request_json = [c \in Calls |-> None]

\* the knock-out evaluator and the risk score on given data
InitRisk ==
  /\ transactions = [c \in Calls |-> <<>>]
  /\ client = [c \in Calls |-> Client(0, 0, 0)]
  /\ pc = [c \in Calls |-> IF c = 1 THEN "knock_outs" ELSE "idle"]
  /\ args = None
  /\ \E d \in DATA : data = [c \in Calls |-> IF c = 1 THEN d ELSE None]
  /\ InitLocals
  /\ InitResults
  /\ InitServer
  /\ request_json = [c \in Calls |-> None]

\* one direct call of calculate_lender_score_hybrid
InitScore ==
  /\ transactions = [c \in Calls |-> <<>>]
  /\ client = [c \in Calls |-> Client(0, 0, 0)]
  /\ pc = [c \in Calls |-> IF c = 1 THEN "calculate" ELSE "idle"]
  /\ args \in ARGS
  /\ data = [c \in Calls |-> None]
  /\ InitLocals
  /\ InitResults
  /\ InitServer
  /\ request_json = [c \in Calls |-> None]

\* one call of detect_lenders_hybrid on records with any amount
InitAmounts ==
  /\ \E batch \in Batches(AMOUNT_TRANSACTIONS, MaxAmountBatch) :
       transactions = [c \in Calls |-> IF c = 1 THEN batch ELSE <<>>]
  /\ client = [c \in Calls |-> Client(0, 0, 0)]
  /\ pc = [c \in Calls |-> IF c = 1 THEN "start" ELSE "idle"]
  /\ args = None
  /\ data = [c \in Calls |-> None]
  /\ InitLocals
  /\ InitResults
  /\ InitServer
  /\ request_json = [c \in Calls |-> None]

\* one call of detect_lenders_hybrid on a batch of repeated outflows
InitRepeat ==
  /\ \E batch \in Batches(REPEAT_TRANSACTIONS, MaxRepeatBatch) :
       transactions = [c \in Calls |-> IF c = 1 THEN batch ELSE <<>>]
  /\ client = [c \in Calls |-> Client(0, 0, 0)]
  /\ pc = [c \in Calls |-> IF c = 1 THEN "start" ELSE "idle"]
  /\ args = None
  /\ data = [c \in Calls |-> None]
  /\ InitLocals
  /\ InitResults
  /\ InitServer
  /\ request_json = [c \in Calls |-> None]
\* one call of detect_lenders_hybrid on a batch of outflows that share keys
InitBuckets ==
  /\ \E batch \in Batches(BUCKET_TRANSACTIONS, MaxBucketBatch) :
       transactions = [c \in Calls |-> IF c = 1 THEN batch ELSE <<>>]
  /\ client = [c \in Calls |-> Client(0, 0, 0)]
  /\ pc = [c \in Calls |-> IF c = 1 THEN "start" ELSE "idle"]
  /\ args = None
  /\ data = [c \in Calls |-> None]
  /\ InitLocals
  /\ InitResults
  /\ InitServer
  /\ request_json = [c \in Calls |-> None]

\* one direct call of categoriser_transaction
InitCategoriser ==
  /\ transactions = [c \in Calls |-> <<>>]
  /\ client = [c \in Calls |-> Client(0, 0, 0)]
  /\ pc = [c \in Calls |-> IF c = 1 THEN "categoriser" ELSE "idle"]
  /\ args \in CATEGORISER_ARGS
  /\ data = [c \in Calls |-> None]
  /\ InitLocals
  /\ InitResults
  /\ InitServer
  /\ request_json = [c \in Calls |-> None]

\* one direct call of count_similar_transactions
InitSimilar ==
  /\ transactions = [c \in Calls |-> <<>>]
  /\ client = [c \in Calls |-> Client(0, 0, 0)]
  /\ pc = [c \in Calls |-> IF c = 1 THEN "count" ELSE "idle"]
  /\ args \in SIMILAR_ARGS
  /\ data = [c \in Calls |-> None]
  /\ InitLocals
  /\ InitResults
  /\ InitServer
  /\ request_json = [c \in Calls |-> None]
\* one direct call of est_exclus
InitExclus ==
  /\ transactions = [c \in Calls |-> <<>>]
  /\ client = [c \in Calls |-> Client(0, 0, 0)]
  /\ pc = [c \in Calls |-> IF c = 1 THEN "exclus" ELSE "idle"]
  /\ args \in EXCLUS_ARGS
  /\ data = [c \in Calls |-> None]
  /\ InitLocals
  /\ InitResults
  /\ InitServer
  /\ request_json = [c \in Calls |-> None]
\* two requests are about to be posted to the server
InitApp ==
  /\ request_json \in [Calls -> UNION { Bodies(c) : c \in Calls }]
  /\ \A c \in Calls : request_json[c] \in Bodies(c)
  /\ transactions = [c \in Calls |-> <<>>]
  /\ client = [c \in Calls |-> Client(0, 0, 0)]
  /\ pc = [c \in Calls |-> "request"]
  /\ args = None
  /\ data = [c \in Calls |-> None]
  /\ InitLocals
  /\ InitResults
  /\ InitServer

\* one direct call of calculer_probabilite_realiste
InitChance ==
  /\ transactions = [c \in Calls |-> <<>>]
  /\ client = [c \in Calls |-> Client(0, 0, 0)]
  /\ pc = [c \in Calls |-> IF c = 1 THEN "probabilite" ELSE "idle"]
  /\ args \in CHANCE_ARGS
  /\ data = [c \in Calls |-> None]
  /\ InitLocals
  /\ InitResults
  /\ InitServer
  /\ request_json = [c \in Calls |-> None]

\* ------------------------------------------------------------------------
\* Actions
\* ------------------------------------------------------------------------
Buckets(f) ==
  [preteurs_confirmes |-> preteurs_confirmes[f],
   preteurs_probables |-> preteurs_probables[f],
   preteurs_possibles |-> preteurs_possibles[f],
   exclusions |-> exclusions[f],
   result |-> result[f]]

\* the transaction the for loop of call c is at
Current(c) == transactions[c][idx[Frame(c)]]

\* the pipeline is called: detect_lenders_hybrid creates its locals
Start(c) ==
  /\ pc[c] = "start"
  /\ pc' = [pc EXCEPT ![c] = "loop"]
  /\ runs' = [runs EXCEPT ![c] = @ + 1]
  /\ preteurs_confirmes' = [preteurs_confirmes EXCEPT ![Frame(c)] = <<>>]
  /\ preteurs_probables' = [preteurs_probables EXCEPT ![Frame(c)] = <<>>]
  /\ preteurs_possibles' = [preteurs_possibles EXCEPT ![Frame(c)] = <<>>]
  /\ exclusions' = [exclusions EXCEPT ![Frame(c)] = <<>>]
  /\ transaction_history' =
       [transaction_history EXCEPT ![Frame(c)] = HistoryOf(@, transactions[c])]
  /\ idx' = [idx EXCEPT ![Frame(c)] = 1]
  /\ UNCHANGED server_vars
  /\ UNCHANGED << transactions, client, result, args, detection_result, data,
                  knock_outs_result, score_result, chances, previous >>

\* one iteration of the for loop, its outcome b computed once; the
\* iteration on a record whose amount cannot be compared raises, and the
\* call ends without a result
LoopStep(c) ==
  /\ pc[c] = "loop"
  /\ idx[Frame(c)] <= Len(transactions[c])
  /\ IF RaisesTypeError(Current(c))
       THEN /\ pc' = [pc EXCEPT ![c] = "raised"]
            /\ UNCHANGED << preteurs_confirmes, preteurs_probables,
                            preteurs_possibles, exclusions, result, idx >>
       ELSE /\ \E b \in { ProcessTransaction(Buckets(Frame(c)), Current(c),
                                               transaction_history[Frame(c)]) } :
                 LET f == Frame(c)
                 IN  /\ preteurs_confirmes' =
                          [preteurs_confirmes EXCEPT ![f] = b.preteurs_confirmes]
                     /\ preteurs_probables' =
                          [preteurs_probables EXCEPT ![f] = b.preteurs_probables]
                     /\ preteurs_possibles' =
                          [preteurs_possibles EXCEPT ![f] = b.preteurs_possibles]
                     /\ exclusions' = [exclusions EXCEPT ![f] = b.exclusions]
                     /\ result' = [result EXCEPT ![f] = b.result]
                     /\ idx' = [idx EXCEPT ![f] = @ + 1]
            /\ UNCHANGED pc
  /\ UNCHANGED server_vars
  /\ UNCHANGED << transactions, client, runs, transaction_history, args,
                  detection_result, data, knock_outs_result, score_result,
                  chances, previous >>

\* the loop is over: the statistics are computed and the result returned
ComputeStatistics(c) ==
  /\ pc[c] = "loop"
  /\ idx[Frame(c)] > Len(transactions[c])
  /\ detection_result' =
       [detection_result EXCEPT ![c] =
          DetectionResult(Buckets(Frame(c)), transactions[c])]
  /\ pc' = [pc EXCEPT ![c] = "evaluate"]
  /\ UNCHANGED server_vars
  /\ UNCHANGED << transactions, client, runs, idx, transaction_history,
                  preteurs_confirmes, preteurs_probables, preteurs_possibles,
                  exclusions, result, args, data, knock_outs_result,
                  score_result, chances, previous >>

\* generate_report_enrichi prepares data_evaluation
PrepareEvaluation(c) ==
  /\ pc[c] = "evaluate"
  /\ data' = [data EXCEPT ![c] =
                DataEvaluation(detection_result[c].statistiques, client[c],
                               MonthlyIncome(client[c], transactions[c]))]
  /\ pc' = [pc EXCEPT ![c] = "knock_outs"]
  /\ UNCHANGED server_vars
  /\ UNCHANGED << transactions, client, runs, idx, transaction_history,
                  preteurs_confirmes, preteurs_probables, preteurs_possibles,
                  exclusions, result, args, detection_result,
                  knock_outs_result, score_result, chances, previous >>

VerifierKnockOuts(c) ==
  /\ pc[c] = "knock_outs"
  /\ knock_outs_result' =
       [knock_outs_result EXCEPT ![c] = verifier_knock_outs(data[c])]
  /\ pc' = [pc EXCEPT ![c] = "score"]
  /\ UNCHANGED server_vars
  /\ UNCHANGED << transactions, client, runs, idx, transaction_history,
                  preteurs_confirmes, preteurs_probables, preteurs_possibles,
                  exclusions, result, args, detection_result, data,
                  score_result, chances, previous >>

CalculerScoreAvance(c) ==
  /\ pc[c] = "score"
  /\ score_result' =
       [score_result EXCEPT ![c] =
          calculer_score_avance(data[c], knock_outs_result[c])]
  /\ pc' = [pc EXCEPT ![c] = IF detection_result[c] = None THEN "done"
                                                            ELSE "chances"]
  /\ UNCHANGED server_vars
  /\ UNCHANGED << transactions, client, runs, idx, transaction_history,
                  preteurs_confirmes, preteurs_probables, preteurs_possibles,
                  exclusions, result, args, detection_result, data,
                  knock_outs_result, chances, previous >>

\* the loop over the offered amounts of generate_report_enrichi
CalculerProbabilites(c) ==
  /\ pc[c] = "chances"
  /\ chances' =
       [chances EXCEPT ![c] =
          Probabilites(detection_result[c].statistiques,
                       MonthlyIncome(client[c], transactions[c]),
                       score_result[c].score)]
  /\ pc' = [pc EXCEPT ![c] = "done"]
  /\ UNCHANGED server_vars
  /\ UNCHANGED << transactions, client, runs, idx, transaction_history,
                  preteurs_confirmes, preteurs_probables, preteurs_possibles,
                  exclusions, result, args, detection_result, data,
                  knock_outs_result, score_result, previous >>

\* the caller runs the pipeline again on the same batch
Restart(c) ==
  /\ pc[c] = "done"
  /\ runs[c] < MaxRuns
  /\ previous' =
       [previous EXCEPT ![c] =
          [detection_result |-> detection_result[c],
           knock_outs_result |-> knock_outs_result[c],
           score_result |-> score_result[c],
           chances |-> chances[c]]]
  /\ pc' = [pc EXCEPT ![c] = "start"]
  /\ UNCHANGED server_vars
  /\ UNCHANGED << transactions, client, runs, idx, transaction_history,
                  preteurs_confirmes, preteurs_probables, preteurs_possibles,
                  exclusions, result, args, detection_result, data,
                  knock_outs_result, score_result, chances >>

\* a direct call of calculate_lender_score_hybrid, as run_tests makes it
CalculateLenderScore(c) ==
  /\ pc[c] = "calculate"
  /\ result' =
       [result EXCEPT ![Frame(c)] =
          calculate_lender_score_hybrid(args.description, args.amount,
                                        args.transaction_history)]
  /\ pc' = [pc EXCEPT ![c] = "done"]
  /\ UNCHANGED server_vars
  /\ UNCHANGED << transactions, client, runs, idx, transaction_history,
                  preteurs_confirmes, preteurs_probables, preteurs_possibles,
                  exclusions, args, detection_result, data, knock_outs_result,
                  score_result, chances, previous >>
\* a direct call of categoriser_transaction on args
CategoriserTransaction(c) ==
  /\ pc[c] = "categoriser"
  /\ result' =
       [result EXCEPT ![Frame(c)] = categoriser_transaction(args.description)]
  /\ pc' = [pc EXCEPT ![c] = "done"]
  /\ UNCHANGED server_vars
  /\ UNCHANGED << transactions, client, runs, idx, transaction_history,
                  preteurs_confirmes, preteurs_probables, preteurs_possibles,
                  exclusions, args, detection_result, data, knock_outs_result,
                  score_result, chances, previous >>

\* a direct call of count_similar_transactions on args
CountSimilarTransactions(c) ==
  /\ pc[c] = "count"
  /\ result' =
       [result EXCEPT ![Frame(c)] =
          [similar_count |->
             count_similar_transactions(args.description,
                                        args.transaction_history)]]
  /\ pc' = [pc EXCEPT ![c] = "done"]
  /\ UNCHANGED server_vars
  /\ UNCHANGED << transactions, client, runs, idx, transaction_history,
                  preteurs_confirmes, preteurs_probables, preteurs_possibles,
                  exclusions, args, detection_result, data, knock_outs_result,
                  score_result, chances, previous >>
\* a direct call of est_exclus on args
EstExclus(c) ==
  /\ pc[c] = "exclus"
  /\ result' =
       [result EXCEPT ![Frame(c)] =
          [exclu |-> est_exclus(args.nom, args.categorie)]]
  /\ pc' = [pc EXCEPT ![c] = "done"]
  /\ UNCHANGED server_vars
  /\ UNCHANGED << transactions, client, runs, idx, transaction_history,
                  preteurs_confirmes, preteurs_probables, preteurs_possibles,
                  exclusions, args, detection_result, data, knock_outs_result,
                  score_result, chances, previous >>

\* a direct call of calculer_probabilite_realiste on args
CalculerProbabiliteRealiste(c) ==
  /\ pc[c] = "probabilite"
  /\ chances' =
       [chances EXCEPT ![c] =
          << calculer_probabilite_realiste(args.score_global,
               args.ratio_dette, args.nb_preteurs, args.montant_demande,
               args.capacite_max) >>]
  /\ pc' = [pc EXCEPT ![c] = "done"]
  /\ UNCHANGED server_vars
  /\ UNCHANGED << transactions, client, runs, idx, transaction_history,
                  preteurs_confirmes, preteurs_probables, preteurs_possibles,
                  exclusions, result, args, detection_result, data,
                  knock_outs_result, score_result, previous >>
\* what the endpoints leave alone: the state of the detection pipeline
pipeline_vars ==
  << transactions, client, runs, idx, transaction_history,
     preteurs_confirmes, preteurs_probables, preteurs_possibles, exclusions,
     result, args, detection_result, data, knock_outs_result, score_result,
     chances, previous >>

\* POST /api/analyze-direct
AnalyzeDirect(c) ==
  /\ pc[c] = "request"
  /\ \E response \in { analyze_direct(request_json[c], now) } :
       responses' = [responses EXCEPT ![c] = response]
  /\ pc' = [pc EXCEPT ![c] = "done"]
  /\ UNCHANGED << request_json, REPORTS_CACHE, rapports_cache, now >>
  /\ UNCHANGED pipeline_vars

\* POST /api/analyze-inverite: the report goes to the cache and to a file
AnalyzeInverite(c) ==
  /\ pc[c] = "request"
  /\ \E report \in { report_data(request_json[c], now) } :
         /\ REPORTS_CACHE' = SetItem(REPORTS_CACHE, report.id, report)
         /\ rapports_cache' = SetItem(rapports_cache, report.id, report)
         /\ responses' =
              [responses EXCEPT ![c] =
                 [success |-> TRUE, id |-> report.id,
                  client |-> report.client.nom, score |-> report.score_global,
                  knockOuts |-> report.resume.preteurs_count]]
  /\ pc' = [pc EXCEPT ![c] = "analysed"]
  /\ UNCHANGED << request_json, now >>
  /\ UNCHANGED pipeline_vars

\* GET /api/get-report/<id> with the id the analysis answered: the cache
\* first, then the file, else 404
GetReport(c) ==
  /\ pc[c] = "analysed"
  /\ \E report_id \in { responses[c].id } :
         IF HasKey(REPORTS_CACHE, report_id)
           THEN /\ responses' =
                     [responses EXCEPT ![c] =
                        REPORTS_CACHE[IndexOf(REPORTS_CACHE, report_id)].entry]
                /\ UNCHANGED REPORTS_CACHE
         ELSE IF HasKey(rapports_cache, report_id)
           THEN \E file \in
                  { rapports_cache[IndexOf(rapports_cache, report_id)].entry } :
                    /\ REPORTS_CACHE' = SetItem(REPORTS_CACHE, report_id, file)
                    /\ responses' = [responses EXCEPT ![c] = file]
         ELSE /\ responses' =
                   [responses EXCEPT ![c] =
                      [success |-> FALSE, error |-> "Rapport non trouve"]]
              /\ UNCHANGED REPORTS_CACHE
  /\ pc' = [pc EXCEPT ![c] = "fetched"]
  /\ UNCHANGED << request_json, rapports_cache, now >>
  /\ UNCHANGED pipeline_vars

\* the clock advances
Tick ==
  /\ now < MaxClock
  /\ now' = now + 1
  /\ UNCHANGED << pc, request_json, REPORTS_CACHE, rapports_cache, responses >>
  /\ UNCHANGED pipeline_vars

\* the server process starts again: the module-level dict is empty, the files
\* are still there
ServerStart ==
  /\ REPORTS_CACHE # <<>>
  /\ REPORTS_CACHE' = <<>>
  /\ UNCHANGED << pc, request_json, rapports_cache, now, responses >>
  /\ UNCHANGED pipeline_vars

Next ==
  \/ Start(1)
  \/ LoopStep(1)
  \/ ComputeStatistics(1)
  \/ PrepareEvaluation(1)
  \/ VerifierKnockOuts(1)
  \/ CalculerScoreAvance(1)
  \/ CalculerProbabilites(1)
  \/ Restart(1)

Spec == Init /\ [][Next]_vars

NextConc ==
  \E c \in Calls :
    \/ Start(c)
    \/ LoopStep(c)
    \/ ComputeStatistics(c)
    \/ PrepareEvaluation(c)
    \/ VerifierKnockOuts(c)
    \/ CalculerScoreAvance(c)
    \/ CalculerProbabilites(c)

SpecConc == InitConc /\ [][NextConc]_vars

NextRisk == VerifierKnockOuts(1) \/ CalculerScoreAvance(1)

SpecRisk == InitRisk /\ [][NextRisk]_vars

NextScore == CalculateLenderScore(1)

SpecScore == InitScore /\ [][NextScore]_vars

NextAmounts == Start(1) \/ LoopStep(1) \/ ComputeStatistics(1)

SpecAmounts == InitAmounts /\ [][NextAmounts]_vars

NextRepeat == Start(1) \/ LoopStep(1) \/ ComputeStatistics(1)

SpecRepeat == InitRepeat /\ [][NextRepeat]_vars
NextBuckets == Start(1) \/ LoopStep(1) \/ ComputeStatistics(1)

SpecBuckets == InitBuckets /\ [][NextBuckets]_vars

NextCategoriser == CategoriserTransaction(1)

SpecCategoriser == InitCategoriser /\ [][NextCategoriser]_vars

NextSimilar == CountSimilarTransactions(1)

SpecSimilar == InitSimilar /\ [][NextSimilar]_vars
NextExclus == EstExclus(1)

SpecExclus == InitExclus /\ [][NextExclus]_vars

NextChance == CalculerProbabiliteRealiste(1)

SpecChance == InitChance /\ [][NextChance]_vars

NextApp ==
  \/ \E c \in Calls : AnalyzeDirect(c)
  \/ \E c \in Calls : AnalyzeInverite(c)
  \/ \E c \in Calls : GetReport(c)
  \/ Tick
  \/ ServerStart

SpecApp == InitApp /\ [][NextApp]_vars

\* ------------------------------------------------------------------------
\* Properties
\* ------------------------------------------------------------------------

\* C1: whenever verifier_knock_outs reports at least one knock-out,
\* calculer_score_avance returns score 0, tier CRITIQUE and no penalty,
\* whatever the other inputs; income 3000 with payments 3200 gives score 0.
C1_KnockOutForcesZero ==
  \A c \in Calls :
    (pc[c] = "done" /\ score_result[c] # None) =>
      /\ knock_outs_result[c].has_knock_outs =>
           /\ score_result[c].score = 0
           /\ score_result[c].niveau_risque = "CRITIQUE"
           /\ score_result[c].penalites = <<>>
      /\ (data[c].revenus_mensuels = 3000
            /\ data[c].total_paiements_prets = 3200) =>
           score_result[c].score = 0

\* a knock-out was reported for income 3000 and payments 3200, with no
\* other knock-out input
C1_Witness ==
  /\ pc[1] = "done"
  /\ score_result[1] # None
  /\ data[1].revenus_mensuels = 3000
  /\ data[1].total_paiements_prets = 3200
  /\ data[1].nb_preteurs_confirmes = 1
  /\ data[1].nsf_30_jours = 1
  /\ data[1].overdraft_90_jours = 1
  /\ knock_outs_result[1].has_knock_outs
  /\ score_result[1].score = 0

\* the rules the statement counts as triggered, in the order of the checks
KNOCK_OUT_TYPES ==
  << "RATIO_DR_CRITIQUE", "RATIO_DR_SEVERE", "CAPACITE_NEGATIVE",
     "TROP_PRETEURS", "NSF_REPETES", "OVERDRAFT_CHRONIQUE" >>

\* the rule as C10 states it: the ratio needs an income to divide by, the
\* capacity 0.5 x income - payments does not
TriggeredAsStated(d, type) ==
  LET r == d.revenus_mensuels
      p == d.total_paiements_prets
  IN  CASE type = "RATIO_DR_CRITIQUE" -> r > 0 /\ 100 * p > 200 * r
        [] type = "RATIO_DR_SEVERE" ->
             r > 0 /\ 100 * p > 100 * r /\ ~(100 * p > 200 * r)
        [] type = "CAPACITE_NEGATIVE" -> r - 2 * p < 0
        [] type = "TROP_PRETEURS" -> d.nb_preteurs_confirmes > 5
        [] type = "NSF_REPETES" -> d.nsf_30_jours > 2
        [] type = "OVERDRAFT_CHRONIQUE" -> d.overdraft_90_jours > 5

\* the rule as the code applies it: ratio and capacity only with income > 0
TriggeredWithIncome(d, type) ==
  IF type = "CAPACITE_NEGATIVE"
    THEN d.revenus_mensuels > 0 /\ TriggeredAsStated(d, type)
    ELSE TriggeredAsStated(d, type)

KnockOutTypes(ko_result) ==
  [k \in 1..Len(ko_result.knock_outs) |-> ko_result.knock_outs[k].type]

ExpectedAsStated(d) ==
  SelectSeq(KNOCK_OUT_TYPES, LAMBDA type : TriggeredAsStated(d, type))

ExpectedWithIncome(d) ==
  SelectSeq(KNOCK_OUT_TYPES, LAMBDA type : TriggeredWithIncome(d, type))

KnockOutsAre(ko_result, expected) ==
  /\ KnockOutTypes(ko_result) = expected
  /\ ko_result.has_knock_outs = (ko_result.knock_outs # <<>>)
  /\ ko_result.nb_knock_outs = Len(ko_result.knock_outs)

Evaluated(c) ==
  pc[c] \in {"score", "chances", "done"} /\ knock_outs_result[c] # None

\* C10 (as stated): the result list holds exactly the triggered rules among
\* ratio (critical above 200%, else severe above 100%), negative capacity
\* (0.5 x income - payments < 0), lender count > 5, NSF > 2 and overdraft > 5,
\* each once, and has_knock_outs is true exactly when the list is non-empty.
C10_AsStated ==
  \A c \in Calls :
    Evaluated(c) =>
      KnockOutsAre(knock_outs_result[c], ExpectedAsStated(data[c]))

\* C10 (amended): the same, the ratio rule and the negative-capacity rule
\* being evaluated only when the monthly income is above 0.
C10_AllChecksEvaluated ==
  \A c \in Calls :
    Evaluated(c) =>
      KnockOutsAre(knock_outs_result[c], ExpectedWithIncome(data[c]))

\* four rules triggered at once: none of them stopped the others
C10_Witness ==
  /\ pc[1] = "score"
  /\ KnockOutTypes(knock_outs_result[1]) =
       << "RATIO_DR_SEVERE", "CAPACITE_NEGATIVE", "TROP_PRETEURS",
          "NSF_REPETES" >>

\* the registry lender names contained in the upper-cased description
LenderNamesIn(description) ==
  { nom \in Range(PRETEURS_OFFICIELS_OPC) \cup Range(PRETEURS_COMPLEMENTAIRES) :
      Contains(nom, upper(description)) }

\* C2: for every description that contains a registry lender name,
\* calculate_lender_score_hybrid returns an exact-list source and a score of
\* 95 with LISTE_OPC when the matched name is on the official list, of 90
\* with LISTE_COMPLEMENTAIRE when it is on the supplementary list; the
\* result is determined by the description alone, whatever the amount and
\* the history, and carries the single reason of the list match.
C2_ExactListMatch ==
  (pc[1] = "done" /\ args # None /\ LenderNamesIn(args.description) # {}) =>
    LET r == result[Frame(1)]
    IN  /\ r.preteur_nom \in LenderNamesIn(args.description)
        /\ r.source \in {"LISTE_OPC", "LISTE_COMPLEMENTAIRE"}
        /\ r.score \in {90, 95}
        /\ r.preteur_nom \in Range(PRETEURS_OFFICIELS_OPC) =>
              r.score = 95 /\ r.source = "LISTE_OPC"
        /\ r.preteur_nom \in Range(PRETEURS_COMPLEMENTAIRES) =>
              r.score = 90 /\ r.source = "LISTE_COMPLEMENTAIRE"
        /\ r.confidence = "TRES ELEVEE"
        /\ r.reasons = << <<"Preteur officiel identifie", <<r.preteur_nom>> >> >>

\* a supplementary-list lender scored with an extreme amount and a history
C2_Witness ==
  /\ pc[1] = "done"
  /\ args # None
  /\ args.description = Cash_Money
  /\ args.amount = 25000
  /\ Len(args.transaction_history) = MaxHistory
  /\ result[Frame(1)].score = 90
  /\ result[Frame(1)].source = "LISTE_COMPLEMENTAIRE"

\* the scores stored in the entries of a bucket
EntryScores(bucket) == { bucket[k].entry.score : k \in 1..Len(bucket) }

\* C3: every score returned by calculate_lender_score_hybrid is an integer
\* in [0,100], and every score stored in an entry of one of the four buckets
\* stays in [0,100] after any sequence of transactions.
C3_ScoresInRange ==
  \A f \in Calls :
    /\ result[f] # None => result[f].score \in 0..100
    /\ EntryScores(preteurs_confirmes[f]) \subseteq 0..100
    /\ EntryScores(preteurs_probables[f]) \subseteq 0..100
    /\ EntryScores(preteurs_possibles[f]) \subseteq 0..100
    /\ EntryScores(exclusions[f]) \subseteq 0..100

\* the points of the rules for a transaction, before the clamp
RawScore(trans, history) ==
  SumPoints(ReglesIntelligentes(trans.description,
              normalize_description(trans.description), Abs(trans.amount),
              count_similar_transactions(trans.description, history)))

\* a probable entry holds 100 for a transaction whose rules add up to more
\* than 100, and the last result is 0 for one whose rules add up to less
\* than 0
C3_Witness ==
  /\ pc[1] = "loop"
  /\ idx[Frame(1)] = 3
  /\ RawScore(transactions[1][1], transaction_history[Frame(1)]) > 100
  /\ 100 \in EntryScores(preteurs_probables[Frame(1)])
  /\ RawScore(transactions[1][2], transaction_history[Frame(1)]) < 0
  /\ result[Frame(1)].source = "AUCUNE"
  /\ result[Frame(1)].score = 0

\* the results of the run of call c that is over
Results(c) ==
  [detection_result |-> detection_result[c],
   knock_outs_result |-> knock_outs_result[c],
   score_result |-> score_result[c],
   chances |-> chances[c]]

C9_StatisticsConsistent ==
  \A c \in Calls :
    detection_result[c] # None =>
      LET d == detection_result[c]
          s == d.statistiques
      IN  /\ s.nb_preteurs_confirmes = Len(d.preteurs_confirmes)
          /\ s.nb_preteurs_probables = Len(d.preteurs_probables)
          /\ s.nb_preteurs_possibles = Len(d.preteurs_possibles)
          /\ s.nb_exclusions = Len(d.exclusions)
          /\ s.dette_confirmee = SumTotalPaye(d.preteurs_confirmes)
          /\ s.dette_probable = SumTotalPaye(d.preteurs_probables)
          /\ s.dette_possible = SumTotalPaye(d.preteurs_possibles)
          /\ s.dette_totale_estimee = s.dette_confirmee + s.dette_probable

\* a result with a possible lender whose total is left out of the estimate
C9_Witness ==
  /\ detection_result[1] # None
  /\ detection_result[1].statistiques.dette_possible > 0
  /\ detection_result[1].statistiques.dette_probable > 0
  /\ detection_result[1].statistiques.dette_totale_estimee =
       detection_result[1].statistiques.dette_probable

\* call c makes one iteration of the for loop of detect_lenders_hybrid
Iterates(c) == pc[c] = "loop" /\ idx'[Frame(c)] = idx[Frame(c)] + 1

\* the record the loop appends for trans
Record(trans) ==
  [date |-> trans.date, description |-> trans.description,
   amount |-> Abs(trans.amount)]

RECURSIVE SumAmounts(_)
SumAmounts(records) ==
  IF records = <<>> THEN 0
  ELSE Head(records).amount + SumAmounts(Tail(records))

\* the number of transactions recorded in a bucket
RECURSIVE NbTransactions(_)
NbTransactions(bucket) ==
  IF bucket = <<>> THEN 0
  ELSE Len(Head(bucket).entry.transactions) + NbTransactions(Tail(bucket))

\* the description matches no lender but an insurer, a trustee, a casino or
\* a merchant of the registry
MatchesExclusionOnly(description) ==
  /\ LenderNamesIn(description) = {}
  /\ \/ est_assurance(description).est
     \/ est_syndic(description).est
     \/ est_casino(description).est
     \/ HitsIn(COMMERCES_SERVICES, upper(description)) # {}

C5_LenderConfirmed ==
  [][\A c \in Calls :
       (/\ Iterates(c)
        /\ Current(c).amount < 0
        /\ ~est_exclus(Current(c).description, Current(c).category)
        /\ LenderNamesIn(Current(c).description) # {}) =>
         LET f == Frame(c)
             trans == Current(c)
             old == preteurs_confirmes[f]
             new == preteurs_confirmes'[f]
         IN  /\ preteurs_probables'[f] = preteurs_probables[f]
             /\ preteurs_possibles'[f] = preteurs_possibles[f]
             /\ exclusions'[f] = exclusions[f]
             /\ NbTransactions(new) = NbTransactions(old) + 1
             /\ \E nom \in LenderNamesIn(trans.description) :
                  /\ nom = result'[f].preteur_nom
                  /\ Cardinality({ k \in 1..Len(new) : new[k].key = nom }) = 1
                  /\ Len(new) = Len(old) + (IF HasKey(old, nom) THEN 0 ELSE 1)
                  /\ \A k \in 1..Len(old) : old[k].key # nom => new[k] = old[k]
                  /\ LET e == new[IndexOf(new, nom)].entry
                         before == IF HasKey(old, nom)
                                     THEN old[IndexOf(old, nom)].entry.transactions
                                     ELSE <<>>
                     IN  /\ e.nom = nom
                         /\ e.transactions = Append(before, Record(trans))
                         /\ e.total_paye = SumAmounts(e.transactions)
    ]_vars

\* two payments with different descriptions share the entry of the lender
\* whose name both contain
C5_Witness ==
  /\ pc[1] = "loop"
  /\ idx[Frame(1)] = 3
  /\ Len(preteurs_confirmes[Frame(1)]) = 1
  /\ LET e == preteurs_confirmes[Frame(1)][1].entry
     IN  /\ Len(e.transactions) = 2
         /\ e.transactions[1].description # e.transactions[2].description
         /\ e.nom \in LenderNamesIn(e.transactions[1].description)
         /\ e.nom \in LenderNamesIn(e.transactions[2].description)
  /\ preteurs_probables[Frame(1)] = <<>>
  /\ preteurs_possibles[Frame(1)] = <<>>
  /\ exclusions[Frame(1)] = <<>>

\* C6: detect_lenders_hybrid skips every transaction whose amount is greater
\* than or equal to 0: the iteration on such a transaction adds nothing to
\* any of the four buckets and changes no running total.
C6_SkipsNonNegative ==
  [][\A c \in Calls :
       (Iterates(c) /\ Current(c).amount >= 0) =>
         /\ preteurs_confirmes'[Frame(c)] = preteurs_confirmes[Frame(c)]
         /\ preteurs_probables'[Frame(c)] = preteurs_probables[Frame(c)]
         /\ preteurs_possibles'[Frame(c)] = preteurs_possibles[Frame(c)]
         /\ exclusions'[Frame(c)] = exclusions[Frame(c)]
    ]_vars

\* C8: two detect_lenders_hybrid calls on independent batches, in any
\* interleaving, each return what the call returns when it runs alone; a
\* step of one call leaves the locals and the results of the other call as
\* they are, and the input transaction lists are left unchanged.
C8_Stateless ==
  [][\A c \in Calls :
       /\ transactions'[c] = transactions[c]
       /\ detection_result'[c] # detection_result[c] =>
            detection_result'[c] = detect_lenders_hybrid(transactions[c])
       /\ (\E d \in Calls \ {c} :
             pc'[d] # pc[d] \/ idx'[Frame(d)] # idx[Frame(d)]) =>
            /\ Buckets(Frame(c))' = Buckets(Frame(c))
            /\ transaction_history'[Frame(c)] = transaction_history[Frame(c)]
            /\ idx'[Frame(c)] = idx[Frame(c)]
            /\ Results(c)' = Results(c)
            /\ data'[c] = data[c]
    ]_vars

\* both calls are in their loops, each with its own batch and its own buckets
C8_Witness ==
  /\ pc[1] = "loop" /\ pc[2] = "loop"
  /\ idx[Frame(1)] = 2 /\ idx[Frame(2)] = 2
  /\ transactions[1] # transactions[2]
  /\ preteurs_confirmes[Frame(1)] # <<>>
  /\ exclusions[Frame(1)] = <<>>
  /\ exclusions[Frame(2)] # <<>>
  /\ preteurs_confirmes[Frame(2)] = <<>>

\* the penalty of each category as the table of the risk score gives it, for
\* data without a knock-out; the debt/income ratio exists with income > 0
PenaliteRatio(d) ==
  LET r == d.revenus_mensuels
      p == d.total_paiements_prets
  IN  IF r <= 0 THEN 0
      ELSE IF 100 * p > 75 * r THEN 20
      ELSE IF 100 * p > 50 * r THEN 15
      ELSE IF 100 * p > 30 * r THEN 10
      ELSE IF 100 * p > 15 * r THEN 5
      ELSE 0

PenaliteBudget(d) ==
  LET b == d.budget_disponible
  IN  IF b.num < 0 THEN 20
      ELSE IF b.num < 500 * b.den THEN 15
      ELSE IF b.num < 1000 * b.den THEN 10
      ELSE IF b.num < 1500 * b.den THEN 5
      ELSE 0

PenalitePreteurs(d) ==
  CASE d.nb_preteurs_confirmes = 5 -> 20
    [] d.nb_preteurs_confirmes = 4 -> 15
    [] d.nb_preteurs_confirmes = 3 -> 10
    [] d.nb_preteurs_confirmes = 2 -> 5
    [] d.nb_preteurs_confirmes = 1 -> 2
    [] OTHER -> 0

PenaliteNSF(d) ==
  CASE d.nsf_30_jours = 2 -> 15
    [] d.nsf_30_jours = 1 -> 10
    [] OTHER -> 0

PenaliteOverdraft(d) ==
  IF d.overdraft_90_jours = 5 THEN 12
  ELSE IF d.overdraft_90_jours >= 3 THEN 8
  ELSE IF d.overdraft_90_jours >= 1 THEN 5
  ELSE 0

SommePenalites(d) ==
  PenaliteRatio(d) + PenaliteBudget(d) + PenalitePreteurs(d) + PenaliteNSF(d)
    + PenaliteOverdraft(d)

\* the number of categories with a penalty
NbPenalites(d) ==
  Cardinality({ k \in 1..5 :
    << PenaliteRatio(d), PenaliteBudget(d), PenalitePreteurs(d),
       PenaliteNSF(d), PenaliteOverdraft(d) >>[k] > 0 })

\* the call of calculer_score_avance by call c has returned, without a
\* knock-out
ScoredWithoutKnockOut(c) ==
  /\ pc[c] \in {"chances", "done"}
  /\ score_result[c] # None
  /\ ~knock_outs_result[c].has_knock_outs

\* C11: when no knock-out is present, calculer_score_avance returns
\* max(0, 100 - sum of penalties), one tier per category (ratio, budget,
\* lender count, NSF, overdraft), one penalty text per penalised category,
\* and the tier FAIBLE for a score >= 80, MODERE for >= 60, ELEVE for >= 40,
\* TRES ELEVE below.
C11_ProgressivePenalties ==
  \A c \in Calls :
    ScoredWithoutKnockOut(c) =>
      LET s == score_result[c]
          expected == Max(0, 100 - SommePenalites(data[c]))
      IN  /\ s.score = expected
          /\ Len(s.penalites) = NbPenalites(data[c])
          /\ s.knock_outs = <<>>
          /\ s.niveau_risque =
               IF expected >= 80 THEN "FAIBLE"
               ELSE IF expected >= 60 THEN "MODERE"
               ELSE IF expected >= 40 THEN "ELEVE"
               ELSE "TRES ELEVE"

\* a score with a penalty in each of the five categories
C11_Witness ==
  /\ ScoredWithoutKnockOut(1)
  /\ Len(score_result[1].penalites) = 5
  /\ score_result[1].score = 47
  /\ score_result[1].niveau_risque = "ELEVE"

\* the parts of the approval probability as its table gives them; the
\* ratios are compared in hundredths
BaseAttendue(score) ==
  CASE score >= 80 -> 95
    [] score >= 70 /\ score < 80 -> 85
    [] score >= 60 /\ score < 70 -> 75
    [] score >= 50 /\ score < 60 -> 60
    [] score >= 40 /\ score < 50 -> 40
    [] score >= 30 /\ score < 40 -> 20
    [] OTHER -> 5

\* 40/30/20/10 or 15/10/5 by the limits given in hundredths
PenaliteParSeuils(q, seuils, points) ==
  LET hits == { k \in 1..Len(seuils) : 100 * q.num > seuils[k] * q.den }
  IN  IF hits = {} THEN 0
      ELSE points[CHOOSE k \in hits : \A j \in hits : k <= j]

ChanceAttendue(a) ==
  BaseAttendue(a.score_global)
    - PenaliteParSeuils(a.ratio_dette, <<80, 60, 50, 40>>, <<40, 30, 20, 10>>)
    - (IF a.nb_preteurs >= 8 THEN 30
       ELSE IF a.nb_preteurs >= 6 THEN 20
       ELSE IF a.nb_preteurs >= 4 THEN 10 ELSE 0)
    - PenaliteParSeuils(Ratio(a.montant_demande * a.capacite_max.den,
                              a.capacite_max.num),
                        <<80, 60, 40>>, <<15, 10, 5>>)

\* the direct call of calculer_probabilite_realiste has returned
ChanceReturned == pc[1] = "done"

\* C12: calculer_probabilite_realiste returns clamp(base - penalties, 0, 100)
\* with the base by score, the debt-ratio penalty, the lender-count penalty
\* and the requested/capacity penalty of the table; the value is within
\* 0..100 for every input, a capacity of 0 or below included.
C12_RealisticProbability ==
  ChanceReturned =>
    /\ chances[1][1] \in 0..100
    /\ args.capacite_max.num > 0 =>
         chances[1][1] = Max(0, Min(100, ChanceAttendue(args)))

\* a call with no capacity whose penalties exceed the base: the value is
\* raised to 0
C12_Witness ==
  /\ ChanceReturned
  /\ args.capacite_max.num <= 0
  /\ args.score_global = 29
  /\ args.ratio_dette = Ratio(81, 100)
  /\ args.nb_preteurs = 8
  /\ chances[1] = << 0 >>

\* the direct call of calculate_lender_score_hybrid has returned
ScoreReturned == pc[1] = "done" /\ result[Frame(1)] # None

\* the keywords of a list the description contains, letter case aside
KeywordsIn(lst, description) ==
  { lst[k] : k \in { j \in 1..Len(lst) : Contains(lst[j], upper(description)) } }

\* the description matches no list of the registry
NoRegistryMatch(description) ==
  categoriser_transaction(description).type = "inconnu"

\* the points the description and the amount would collect from the lender
\* keyword, the prefix and the amount range
HasLenderSignals(a) ==
  /\ KeywordsIn(KEYWORDS_PRETEUR, a.description) # {}
  /\ \E k \in 1..Len(PREFIXES_SUSPECTS) :
       StartsWith(upper(a.description), PREFIXES_SUSPECTS[k])
  /\ Abs(a.amount) \in MONTANTS_SUSPECTS

C14_NeverAborts == \A c \in Calls : pc[c] # "raised"

\* the pipeline of call c has computed its chances on data without income
DoneWithoutIncome(c) ==
  /\ pc[c] = "done"
  /\ data[c] # None
  /\ data[c].revenus_mensuels = 0
  /\ detection_result[c] # None

\* the chance of the k-th offer when the debt ratio costs nothing, with
\* the penalty pm for the requested amount
ChanceSansRatio(c, pm) ==
  LET stats == detection_result[c].statistiques
      nb == stats.nb_preteurs_confirmes + stats.nb_preteurs_probables
  IN  Max(0, Min(100, BaseAttendue(score_result[c].score)
                        - (IF nb >= 8 THEN 30
                           ELSE IF nb >= 6 THEN 20
                           ELSE IF nb >= 4 THEN 10 ELSE 0)
                        - pm))

\* C15: when the monthly income is missing or zero, the pipeline triggers no
\* debt/income-ratio knock-out and no negative-capacity knock-out, applies
\* no debt-ratio penalty in the risk score and none in the approval
\* probabilities (each chance is the base less the lender-count penalty and
\* a requested-amount penalty of at most 15), and no operation fails.
C15_NoIncomeNoRatioPenalty ==
  \A c \in Calls :
    DoneWithoutIncome(c) =>
      /\ Range(KnockOutTypes(knock_outs_result[c]))
           \cap {"RATIO_DR_CRITIQUE", "RATIO_DR_SEVERE", "CAPACITE_NEGATIVE"} = {}
      /\ ~knock_outs_result[c].has_knock_outs =>
           score_result[c].score =
             Max(0, 100 - (PenaliteBudget(data[c]) + PenalitePreteurs(data[c])
                             + PenaliteNSF(data[c]) + PenaliteOverdraft(data[c])))
      /\ \A k \in 1..Len(chances[c]) :
           chances[c][k] \in { ChanceSansRatio(c, pm) : pm \in {0, 5, 10, 15} }

\* C16: every iteration of detect_lenders_hybrid on an outflow for which
\* est_exclus is true records the transaction in the excluded bucket: one
\* entry of the bucket (counted in nb_exclusions) ends with its record and
\* the totals of the bucket grow by its amount.
C16_FilteredStillRecorded ==
  [][\A c \in Calls :
       (/\ Iterates(c)
        /\ Current(c).amount < 0
        /\ est_exclus(Current(c).description, Current(c).category)) =>
         LET f == Frame(c)
             trans == Current(c)
         IN  /\ Len(exclusions'[f]) >= 1
             /\ \E k \in 1..Len(exclusions'[f]) :
                  LET e == exclusions'[f][k].entry
                  IN  /\ e.transactions # <<>>
                      /\ e.transactions[Len(e.transactions)] = Record(trans)
             /\ SumTotalPaye(Values(exclusions'[f])) =
                  SumTotalPaye(Values(exclusions[f])) + Abs(trans.amount)]_vars

\* the Jaccard similarity of the word sets of two descriptions is 0.8 or
\* more
NearIdentical(d1, d2) ==
  LET a == split(upper(d1))
      b == split(upper(d2))
  IN  /\ a # {}
      /\ b # {}
      /\ 5 * Cardinality(a \cap b) >= 4 * Cardinality(a \cup b)

\* the number of the positions of trans_list a description is near-identical
\* to
NbNearIdentical(description, trans_list, positions) ==
  Cardinality({ j \in positions :
                  NearIdentical(description, trans_list[j].description) })

\* the repetition bonus of a result is the one of the count n
RepetitionIs(r, n) ==
  LET texts == { r.reasons[k][1] : k \in 1..Len(r.reasons) }
      REPETITIONS == { "Transactions tres repetitives",
                       "Transactions repetitives", "Quelques repetitions" }
  IN  /\ n >= 5 =>
           <<"Transactions tres repetitives", <<n>> >> \in Range(r.reasons)
      /\ (n >= 3 /\ n < 5) =>
           <<"Transactions repetitives", <<n>> >> \in Range(r.reasons)
      /\ n = 2 => <<"Quelques repetitions", <<n>> >> \in Range(r.reasons)
      /\ n < 2 => texts \cap REPETITIONS = {}

\* the iteration of call c scores its transaction with the point rules
ScoresByRules(c) ==
  /\ Iterates(c)
  /\ AmountGet(Current(c)) <= 0
  /\ ~est_exclus(Current(c).description, Current(c).category)
  /\ NoRegistryMatch(Current(c).description)
  /\ KeywordsIn(NON_PRETEUR_KEYWORDS, Current(c).description) = {}

Permutations(n) ==
  { p \in [1..n -> 1..n] : \A i, j \in 1..n : p[i] = p[j] => i = j }

\* the direct call of count_similar_transactions has returned
CountReturned == pc[1] = "done"

\* C18: count_similar_transactions is order-independent: the count is the
\* same for every permutation of the history, and it is the number of the
\* history entries with a non-empty word set whose Jaccard similarity to the
\* description is 0.8 or more, 0 when the description has no word or the
\* history is empty.
C18_OrderIndependent ==
  CountReturned =>
    LET h == args.transaction_history
        n == result[Frame(1)].similar_count
    IN  /\ n = NbNearIdentical(args.description, h, 1..Len(h))
        /\ (split(upper(args.description)) = {} \/ h = <<>>) => n = 0
        /\ \A p \in Permutations(Len(h)) :
             count_similar_transactions(args.description,
                                        [i \in 1..Len(h) |-> h[p[i]]]) = n

\* a history of three entries, a dissimilar one first, an entry without a
\* word and a near-identical one in another letter case last: the count is 1
C18_Witness ==
  /\ CountReturned
  /\ args.description = PMT_CREDIT_SERVICE_123
  /\ Len(args.transaction_history) = 3
  /\ args.transaction_history[1].description = Fast_Funds_Inc
  /\ args.transaction_history[2].description = BLANK
  /\ args.transaction_history[3].description = Pmt_Credit_Service_123_Qc
  /\ result[Frame(1)].similar_count = 1

\* the lists a description matches, by the matcher of each list
ListsMatched(description) ==
  { type \in {"preteur", "assurance", "syndic", "casino", "commerce"} :
      CASE type = "preteur" -> est_preteur(description).est
        [] type = "assurance" -> est_assurance(description).est
        [] type = "syndic" -> est_syndic(description).est
        [] type = "casino" -> est_casino(description).est
        [] type = "commerce" ->
             HitsIn(COMMERCES_SERVICES, upper(description)) # {} }

PRIORITY == <<"preteur", "assurance", "syndic", "casino", "commerce">>

\* the names of a list found in the description
NamesOf(type, description) ==
  CASE type = "preteur" -> { est_preteur(description).nom }
    [] type = "assurance" -> { est_assurance(description).nom }
    [] type = "syndic" -> { est_syndic(description).nom }
    [] type = "casino" -> { est_casino(description).nom }
    [] type = "commerce" -> KeywordsIn(COMMERCES_SERVICES, description)
    [] OTHER -> { <<>> }

\* the direct call of categoriser_transaction has returned
CategoriserReturned == pc[1] = "done"

\* C19: categoriser_transaction returns the first match in the order lender,
\* insurer, trustee, casino, merchant: a description matching a lender name
\* is 'preteur' with doit_exclure false whatever exclusion names it holds, a
\* description matching several exclusion lists gets the type of the
\* earliest of them with doit_exclure true, and a description matching none
\* is 'inconnu' with doit_exclure false.
C19_PriorityOrder ==
  CategoriserReturned =>
    LET r == result[Frame(1)]
        matched == ListsMatched(args.description)
        first == IF matched = {} THEN "inconnu"
                 ELSE PRIORITY[CHOOSE k \in 1..Len(PRIORITY) :
                                 /\ PRIORITY[k] \in matched
                                 /\ \A j \in 1..(k - 1) : PRIORITY[j] \notin matched]
    IN  /\ r.type = first
        /\ r.doit_exclure = (first \notin {"preteur", "inconnu"})
        /\ r.nom \in NamesOf(first, args.description)

\* a description holding a trustee, a casino and a merchant name, the casino
\* first: it is classified as trustee
C19_Witness ==
  /\ CategoriserReturned
  /\ ListsMatched(args.description) = {"syndic", "casino", "commerce"}
  /\ StartsWith(args.description, <<"P","o","k","e","r">>)
  /\ result[Frame(1)].type = "syndic"
  /\ result[Frame(1)].doit_exclure

\* the description goes through the point rules: no registry match and no
\* non-lender keyword
RulesApply(description) ==
  /\ NoRegistryMatch(description)
  /\ KeywordsIn(NON_PRETEUR_KEYWORDS, description) = {}

Points(applies, points) == IF applies THEN points ELSE 0

\* the sum of the table of bonuses and penalties for a description, an
\* amount and a repetition count
SommeAttendue(description, amount, n) ==
  LET desc == normalize_description(description)
      round == amount \in MONTANTS_SUSPECTS
      has(word) == Contains(word, desc)
      CREDIT == <<"C","R","E","D","I","T">>
      FINANCE == <<"F","I","N","A","N","C","E">>
      LOAN == <<"L","O","A","N">>
      PRET == <<"P","R","E","T">>
      triple ==
        /\ StartsWith(desc, <<"P","M","T">>) \/ StartsWith(desc, <<"V","I","R">>)
        /\ has(CREDIT) \/ has(LOAN) \/ has(FINANCE) \/ has(PRET)
        /\ 50 <= amount /\ amount <= 5000
  IN  Points(\E k \in 1..Len(KEYWORDS_PRETEUR) : has(KEYWORDS_PRETEUR[k]), 30)
        + Points(round, 15)
        + (CASE n >= 5 -> 35 [] n \in {3, 4} -> 25 [] n = 2 -> 10 [] OTHER -> 0)
        + Points(\E k \in 1..Len(PREFIXES_SUSPECTS) :
                   StartsWith(desc, PREFIXES_SUSPECTS[k]), 10)
        + Points(50 <= amount /\ amount <= 5000, 10)
        + Points(has(CREDIT) /\ 0 < amount /\ amount < 2000, 20)
        + Points(has(FINANCE) /\ round, 20)
        + Points(has(LOAN) /\ n >= 2, 20)
        + Points(triple, 25)
        - (CASE amount > 20000 -> 40 [] amount > 10000 /\ amount <= 20000 -> 20
             [] OTHER -> 0)
        - Points(Len(strip(description)) < 10, 15)
        - Points(strip(upper(description)) \in Range(GENERIC_DESCRIPTIONS), 20)
        - Points(n > 20, 10)

Labels(r) == { r.reasons[k][1] : k \in 1..Len(r.reasons) }

\* C21: the triple-combination bonus is among the rules applied to a
\* description exactly when the keyword rule, the prefix rule and the
\* amount-range rule are all three among them
C21_TripleWithThreeRules ==
  ScoreReturned =>
    LET labels == Labels(result[1])
    IN  ("Triple combinaison suspecte (prefixe + mot-cle + montant)" \in labels)
          <=> {"Mots-cles suspects", "Prefixe bancaire suspect",
               "Montant typique payday loan (50$-5000$)"} \subseteq labels

\* the transaction the loop of call c is at is an outflow that the
\* exclusion filter lets through and that matches no name of the registry
HeuristicOutflow(c) ==
  /\ Current(c).amount < 0
  /\ ~est_exclus(Current(c).description, Current(c).category)
  /\ categoriser_transaction(Current(c).description).type = "inconnu"

\* the last record of the entry of bucket under key is the record of trans
LastRecordIs(bucket, key, trans) ==
  /\ HasKey(bucket, key)
  /\ LET e == bucket[IndexOf(bucket, key)].entry
     IN  e.transactions # <<>>
           /\ e.transactions[Len(e.transactions)] = Record(trans)

\* C22: an outflow that is not excluded and matches no registry name is
\* recorded by its heuristic score in exactly one place: in the probable
\* bucket when the score is 60 or more, in the possible bucket when it is
\* 40 to 59, in no bucket below 40; and at every moment every probable entry
\* holds a score of 60 or more and every possible entry a score of 40 to 59.
C22_PlacedByScore ==
  /\ [][\A c \in Calls :
          (Iterates(c) /\ HeuristicOutflow(c)) =>
            LET f == Frame(c)
                trans == Current(c)
                key == Prefix(normalize_description(trans.description), 30)
                score == calculate_lender_score_hybrid(trans.description,
                           Abs(trans.amount), transaction_history[f]).score
            IN  /\ preteurs_confirmes'[f] = preteurs_confirmes[f]
                /\ exclusions'[f] = exclusions[f]
                /\ NbTransactions(preteurs_probables'[f]) =
                     NbTransactions(preteurs_probables[f])
                       + (IF score >= 60 THEN 1 ELSE 0)
                /\ NbTransactions(preteurs_possibles'[f]) =
                     NbTransactions(preteurs_possibles[f])
                       + (IF score >= 40 /\ score < 60 THEN 1 ELSE 0)
                /\ score >= 60 =>
                     /\ LastRecordIs(preteurs_probables'[f], key, trans)
                     /\ preteurs_possibles'[f] = preteurs_possibles[f]
                /\ (score >= 40 /\ score < 60) =>
                     /\ LastRecordIs(preteurs_possibles'[f], key, trans)
                     /\ preteurs_probables'[f] = preteurs_probables[f]
                /\ score < 40 =>
                     /\ preteurs_probables'[f] = preteurs_probables[f]
                     /\ preteurs_possibles'[f] = preteurs_possibles[f]
       ]_vars
  /\ [](\A f \in Calls :
          /\ EntryScores(preteurs_probables[f]) \subseteq 60..100
          /\ EntryScores(preteurs_possibles[f]) \subseteq 40..59)

\* a batch of two outflows is over with one of them in a probable entry and
\* the other in a possible entry
C22_Witness ==
  /\ pc[1] = "evaluate"
  /\ Len(transactions[1]) = 2
  /\ NbTransactions(preteurs_probables[1]) = 1
  /\ NbTransactions(preteurs_possibles[1]) = 1
  /\ preteurs_confirmes[1] = <<>>
  /\ exclusions[1] = <<>>

\* the entry under key, present in old_bucket, is in new_bucket what the
\* merge of the result r of one more transaction makes of it
Merged(old_bucket, new_bucket, key, r) ==
  HasKey(old_bucket, key) =>
    LET old == old_bucket[IndexOf(old_bucket, key)].entry
        new == new_bucket[IndexOf(new_bucket, key)].entry
    IN  /\ new.score = Max(old.score, r.score)
        /\ r.score > old.score =>
             new.reasons = r.reasons /\ new.confidence = r.confidence
        /\ r.score <= old.score =>
             new.reasons = old.reasons /\ new.confidence = old.confidence

\* the results of the scorer for the transactions recorded in entry e
ResultsOf(e, history) ==
  { calculate_lender_score_hybrid(e.transactions[k].description,
                                  e.transactions[k].amount, history) :
      k \in 1..Len(e.transactions) }

\* the score of e is the highest of its transactions, and its reasons and
\* confidence are those of one transaction that has this score
HoldsMaximum(e, history) ==
  /\ \A r \in ResultsOf(e, history) : r.score <= e.score
  /\ \E r \in ResultsOf(e, history) :
       /\ r.score = e.score
       /\ r.reasons = e.reasons
       /\ r.confidence = e.confidence

\* C23: a transaction added to an existing probable or possible entry
\* leaves it with the maximum of the old score and its own; its reasons and
\* confidence replace the stored ones only when its score is strictly
\* greater; so the stored reasons are always those of a transaction that
\* produced the stored maximum.
C23_KeepsMaximum ==
  /\ [][\A c \in Calls :
          (Iterates(c) /\ HeuristicOutflow(c)) =>
            LET f == Frame(c)
                trans == Current(c)
                key == Prefix(normalize_description(trans.description), 30)
                r == calculate_lender_score_hybrid(trans.description,
                       Abs(trans.amount), transaction_history[f])
            IN  /\ r.score >= 60 =>
                     Merged(preteurs_probables[f], preteurs_probables'[f],
                            key, r)
                /\ (r.score >= 40 /\ r.score < 60) =>
                     Merged(preteurs_possibles[f], preteurs_possibles'[f],
                            key, r)
       ]_vars
  /\ [](\A f \in Calls :
          /\ \A k \in 1..Len(preteurs_probables[f]) :
               HoldsMaximum(preteurs_probables[f][k].entry,
                            transaction_history[f])
          /\ \A k \in 1..Len(preteurs_possibles[f]) :
               HoldsMaximum(preteurs_possibles[f][k].entry,
                            transaction_history[f]))

\* an entry holds two transactions of different scores, the second one the
\* higher: its reasons are those of the second
C23_Witness ==
  \E k \in 1..Len(preteurs_probables[1]) :
    LET e == preteurs_probables[1][k].entry
    IN  /\ Len(e.transactions) = 2
        /\ LET first == calculate_lender_score_hybrid(
                          e.transactions[1].description,
                          e.transactions[1].amount, transaction_history[1])
               second == calculate_lender_score_hybrid(
                           e.transactions[2].description,
                           e.transactions[2].amount, transaction_history[1])
           IN  /\ first.score < second.score
               /\ e.score = second.score
               /\ e.reasons = second.reasons
               /\ e.reasons # first.reasons

\* the lender keywords of the transfer rule as the rule is stated: credit,
\* loan, advance, finance, cash and emergency-aid terms
LENDER_KEYWORDS_STATED ==
  << <<"C","R","E","D","I","T">>, <<"L","O","A","N">>, <<"P","R","E","T">>,
     <<"P","R","Ec","T">>, <<"A","V","A","N","C","E">>,
     <<"A","D","V","A","N","C","E">>, <<"F","I","N","A","N","C","E">>,
     <<"C","A","S","H">>, <<"S","E","C","O","U","R","S">> >>

\* the tag contains 'transfer' and no rule other than the transfer rule
\* excludes: no other tag rule, no pattern, no list, no short name
TransferRuleAlone(nom, categorie) ==
  /\ Contains(CATEGORIE_TRANSFER, lower(categorie))
  /\ ~AnyIn(CATEGORIES_GAMBLING, lower(categorie))
  /\ ~AnyIn(CATEGORIES_COURANTES, lower(categorie))
  /\ ~Contains(CATEGORIE_ATM, lower(categorie))
  /\ ~AnyIn(toutes_exclusions, upper(nom))
  /\ Len(strip(nom)) >= 4

ExclusReturned == pc[1] = "done" /\ "exclu" \in DOMAIN result[1]

\* C24: for a transfer-tagged transaction that no other rule excludes,
\* est_exclus is true exactly when the description matches no known lender
\* name and contains none of the lender keywords credit, loan, advance,
\* finance, cash and emergency aid
C24_TransferUnlessLender ==
  (ExclusReturned /\ TransferRuleAlone(args.nom, args.categorie)) =>
    (result[1].exclu <=>
       /\ LenderNamesIn(args.nom) = {}
       /\ ~AnyIn(LENDER_KEYWORDS_STATED, upper(args.nom)))

\* C25: an outflow under a transfer tag whose description matches a known
\* lender name is never dropped: est_exclus is false for it and the
\* iteration of detect_lenders_hybrid appends its record to the entry of
\* that lender in the confirmed bucket
C25_LenderTransferKept ==
  [][\A c \in Calls :
       (/\ Iterates(c)
        /\ Current(c).amount < 0
        /\ Contains(CATEGORIE_TRANSFER, lower(Current(c).category))
        /\ LenderNamesIn(Current(c).description) # {}) =>
         LET f == Frame(c)
             trans == Current(c)
         IN  /\ ~est_exclus(trans.description, trans.category)
             /\ NbTransactions(preteurs_confirmes'[f]) =
                  NbTransactions(preteurs_confirmes[f]) + 1
             /\ LastRecordIs(preteurs_confirmes'[f],
                             est_preteur(trans.description).nom, trans)
    ]_vars

\* the registry exclusion entry the recorded transaction t matches
MatchedExclusion(t) == categoriser_transaction(t.description).nom

\* C26: the excluded bucket is keyed by the matched exclusion name: the
\* key of an entry is the registry name its transactions match, so two
\* outflows that match the same exclusion entry are in one entry, whose
\* total is the sum of their amounts
C26_KeyedByExclusionName ==
  \A f \in Calls :
    \A k1, k2 \in 1..Len(exclusions[f]) :
      LET e1 == exclusions[f][k1].entry
          e2 == exclusions[f][k2].entry
      IN  /\ \A j \in 1..Len(e1.transactions) :
               exclusions[f][k1].key = MatchedExclusion(e1.transactions[j])
          /\ e1.total_paye = SumAmounts(e1.transactions)
          /\ (\E j1 \in 1..Len(e1.transactions), j2 \in 1..Len(e2.transactions) :
                MatchedExclusion(e1.transactions[j1]) =
                  MatchedExclusion(e2.transactions[j2])) => k1 = k2

\* the records of all the entries of a bucket, one after the other
RECURSIVE RecordsOf(_)
RecordsOf(bucket) ==
  IF bucket = <<>> THEN <<>>
  ELSE Head(bucket).entry.transactions \o RecordsOf(Tail(bucket))

\* the records of the four buckets of frame f
AllRecords(f) ==
  RecordsOf(preteurs_confirmes[f]) \o RecordsOf(preteurs_probables[f])
    \o RecordsOf(preteurs_possibles[f]) \o RecordsOf(exclusions[f])

\* the number of positions of a sequence that hold v
Occurrences(v, s) == Cardinality({ k \in 1..Len(s) : s[k] = v })

\* every entry of bucket has the sum of its own amounts as total, and no
\* negative amount
TotalsAreSums(bucket) ==
  \A k \in 1..Len(bucket) :
    LET e == bucket[k].entry
    IN  /\ e.total_paye = SumAmounts(e.transactions)
        /\ \A j \in 1..Len(e.transactions) : e.transactions[j].amount >= 0

\* C27: after each transaction processed, every entry of every bucket has
\* total_paye equal to the sum of the amounts of its own transaction list,
\* every amount recorded is non-negative, and each input transaction is
\* recorded in at most one entry of the four buckets: a record occurs in
\* the buckets at most as many times as in the part of the batch processed.
C27_TotalsAndSingleEntry ==
  \A c \in Calls :
    LET f == Frame(c)
        processed == [p \in 1..Min(idx[f] - 1, Len(transactions[c])) |->
                        Record(transactions[c][p])]
    IN  /\ TotalsAreSums(preteurs_confirmes[f])
        /\ TotalsAreSums(preteurs_probables[f])
        /\ TotalsAreSums(preteurs_possibles[f])
        /\ TotalsAreSums(exclusions[f])
        /\ \A k \in 1..Len(AllRecords(f)) :
             Occurrences(AllRecords(f)[k], AllRecords(f)) <=
               Occurrences(AllRecords(f)[k], processed)

\* a batch of two outflows of different amounts is over and one entry
\* holds both, its total their sum
C27_Witness ==
  /\ pc[1] = "evaluate"
  /\ Len(transactions[1]) = 2
  /\ transactions[1][1].amount # transactions[1][2].amount
  /\ \E k \in 1..Len(preteurs_possibles[1]) :
       LET e == preteurs_possibles[1][k].entry
       IN  /\ Len(e.transactions) = 2
           /\ e.total_paye =
                Abs(transactions[1][1].amount) + Abs(transactions[1][2].amount)

RATIO_KNOCK_OUTS == {"RATIO_DR_CRITIQUE", "RATIO_DR_SEVERE"}

\* the types of the knock-outs of call c
TypesOf(c) == Range(KnockOutTypes(knock_outs_result[c]))

\* C28: whenever verifier_knock_outs triggers a debt/income-ratio knock-out
\* it triggers CAPACITE_NEGATIVE too, so the ratio knock-out never comes
\* alone and nb_knock_outs is 2 or more; and not the other way round:
\* payments above 50% of a positive income and up to 100% of it trigger
\* CAPACITE_NEGATIVE and no ratio knock-out.
C28_RatioImpliesCapacity ==
  \A c \in Calls :
    Evaluated(c) =>
      /\ TypesOf(c) \cap RATIO_KNOCK_OUTS # {} =>
           /\ "CAPACITE_NEGATIVE" \in TypesOf(c)
           /\ knock_outs_result[c].nb_knock_outs >= 2
      /\ (/\ data[c].revenus_mensuels > 0
          /\ 2 * data[c].total_paiements_prets > data[c].revenus_mensuels
          /\ data[c].total_paiements_prets <= data[c].revenus_mensuels) =>
           /\ "CAPACITE_NEGATIVE" \in TypesOf(c)
           /\ TypesOf(c) \cap RATIO_KNOCK_OUTS = {}

\* payments of 3200 on an income of 3000 give the severe ratio knock-out
\* and the negative capacity, two knock-outs
C28_Witness ==
  /\ Evaluated(1)
  /\ data[1].revenus_mensuels = 3000
  /\ data[1].total_paiements_prets = 3200
  /\ TypesOf(1) = {"RATIO_DR_SEVERE", "CAPACITE_NEGATIVE"}
  /\ knock_outs_result[1].nb_knock_outs = 2

\* C29: each call of analyze_inverite generates a unique report ID: in every
\* interleaving of the requests two distinct analyses never receive the same
\* ID, and get_report(id) returns the report of the analysis that was given
\* that ID, never the report of another analysis.
Analysed(c) == pc[c] \in {"analysed", "fetched"} /\ "id" \in DOMAIN responses[c]

OwnReport(c, report) ==
  \E t \in 0..MaxClock : report = report_data(request_json[c], t)

C29_UniqueReportIds ==
  /\ \A c, d \in Calls :
       (c # d /\ Analysed(c) /\ Analysed(d))
         => responses[c].id # responses[d].id
  /\ \A c \in Calls :
       pc[c] = "fetched" => OwnReport(c, responses[c])

\* C30: in analyze_direct and analyze_inverite every transaction whose
\* description contains a registry lender name is accumulated under that
\* lender's name, and only such transactions are: preteurs_count (knockOuts
\* in the answer of analyze_inverite) is the number of distinct matched
\* lenders, and the score is 100 less min(10 x that number, 40) and less the
\* NSF penalty.
RECURSIVE PostedTransactions(_)
PostedTransactions(accounts) ==
  IF accounts = <<>> THEN <<>>
  ELSE Head(accounts).transactions \o PostedTransactions(Tail(accounts))

MatchedLenders(body) ==
  LET txs == PostedTransactions(body.accounts)
  IN  { est_preteur(txs[k].details).nom :
          k \in { j \in 1..Len(txs) : est_preteur(txs[j].details).est } }

NsfPosted(body) ==
  LET txs == PostedTransactions(body.accounts)
  IN  Cardinality({ k \in 1..Len(txs) :
                      is_nsf(upper(txs[k].details), txs[k].flags) })

ExpectedScore(body) ==
  ScoreRisque(Cardinality(MatchedLenders(body)), NsfPosted(body))

C30_LendersCountedAndPenalised ==
  \A c \in Calls :
    /\ pc[c] = "done" =>
         /\ responses[c].resume.preteurs_count =
              Cardinality(MatchedLenders(request_json[c]))
         /\ { responses[c].preteurs[k].nom :
                k \in 1..Len(responses[c].preteurs) } =
              MatchedLenders(request_json[c])
         /\ responses[c].resume.score_risque =
              str(ExpectedScore(request_json[c]))
    /\ pc[c] = "analysed" =>
         /\ responses[c].knockOuts =
              Cardinality(MatchedLenders(request_json[c]))
         /\ responses[c].score = ExpectedScore(request_json[c])

====
